---- MODULE Spec2Model ----
(***************************************************************************)
(* StoppableReader of pkg/audio/audio.go: a reader that wraps a live       *)
(* Source, tees what it reads into a history buffer, can be stopped (the   *)
(* next Read returns EOF once), rewound to replay buffered bytes, and      *)
(* reset.  Every method takes sr.mu on entry and releases it on return, so *)
(* each method is one atomic action; the reader actor and the controller   *)
(* actor interleave at the granularity of whole method calls.              *)
(***************************************************************************)
EXTENDS Integers, Sequences, FiniteSets, TLC

\* ---- bounds of the model ----
SrcLen == 5         \* number of bytes the Source produces before EOF
MaxRead == 2        \* largest len(p) handed to Read
MaxHist == 2        \* largest maxBufferSize handed to NewStoppableReader
OffsetSlack == 1    \* Rewind offsets range over -OffsetSlack .. SrcLen+OffsetSlack
MaxCtl == 3         \* Stop, Rewind and Reset calls per run, all together

\* sr.bufferSizeFactor (float32 2.0, used as int(sr.bufferSizeFactor))
bufferSizeFactor == 2

VARIABLES
    srcPos,             \* bytes already consumed from origReader
    buffer,             \* sr.buffer: bytes teed from the Source, oldest first
    bufferStartOffset,  \* sr.bufferStartOffset
    maxBufferSize,      \* sr.maxBufferSize
    currentReader,      \* sr.currentReader
    pauseRead,          \* sr.pauseRead
    rewindWithoutReset, \* sr.rewindWithoutReset
    out,                \* the bytes returned by Read since the last Rewind (or since construction)
    lastOp,             \* the call that completed last, with what a Read returned
    lastRewind,         \* the arguments and the error of the last Rewind call
    pending,            \* "stop": a Stop has returned and no Read has started since;
                        \* "stopThenReset": the same, and a Reset was called in between
    rewoundSinceReset,  \* a Rewind has been called since the last Reset (or construction)
    nStops, nRewinds, nResets, nStopEOF   \* calls made so far / Reads answered by the latch

vars == <<srcPos, buffer, bufferStartOffset, maxBufferSize, currentReader,
          pauseRead, rewindWithoutReset, out, lastOp, lastRewind,
          pending, rewoundSinceReset, nStops, nRewinds, nResets, nStopEOF>>

\* ---- the command server of cmdserver/server.go ----
VARIABLES
    cmdModelFuncs,      \* hr.cmdModelFuncs: <<cmdID, modelID>> -> Handler
    cmdFuncs,           \* hr.cmdFuncs: cmdID -> Handler
    modelFuncs,         \* hr.modelFuncs: modelID -> Handler
    registered,         \* the registrations made through SetCommand, SetModel and
                        \* SetModelCommand, the latest one for each key
    served              \* the last call on the server: for ServeHTTP the request
                        \* body, the response and the handler invocations it made

cmdVars == <<cmdModelFuncs, cmdFuncs, modelFuncs, registered, served>>

\* ---- the parameter map of cmdserver/params.go ----
VARIABLES
    params,             \* a Params value: key -> string
    typed,              \* for each key, the kind and the value handed to the last Set* on it
    got                 \* the last call on the map, with what an As* accessor returned

paramVars == <<params, typed, got>>

\* ---- what an observer of the StoppableReader keeps track of ----
VARIABLE obs            \* the notes of the observer

\* bytes consumed from the Source when Reset was last called (0 before)
resetPos == obs.resetPos
\* some Rewind since the last Reset (or construction) returned nil
okRewind == obs.okRewind
\* some Rewind since the last Reset was called with resetTimeZero
tzRewind == obs.tzRewind

obsVars == <<obs>>

\* ---- a Source whose read may fail ----
VARIABLE srcErr         \* the failures of the Source's read

\* the last Read, when the Source's read failed in it: what the Source returned
\* and what Read returned
srcFail == srcErr.fail
\* Source reads that have failed so far
nFails == srcErr.nFails

errVars == <<srcErr>>

\* ---- sr.mu and the two goroutines that call the StoppableReader ----
VARIABLE lk             \* sr.mu, sr.pauseRead, the cursor and the two goroutines

\* sr.mu: "free", or the method that holds it
mu == lk.mu
\* the reading goroutine: "idle", or "source" while its Read is inside the
\* Source's Read
rdAt == lk.rdAt
\* the controlling goroutine: "idle", or "blocked" in sr.mu.Lock()
ctlAt == lk.ctlAt
\* the method the controlling goroutine called last
ctlOp == lk.ctlOp
\* sr.pauseRead as these goroutines leave it
paused == lk.paused
\* Reads the replay slice of the cursor still serves
replayLeft == lk.replayLeft
\* calls made so far by both goroutines
nCalls == lk.nCalls
\* the control call completed last had to wait in sr.mu.Lock()
ctlWaited == lk.ctlWaited

lockVars == <<lk>>

\* ---- sendaudio of the cubic / transcribe clients ----
VARIABLE snd            \* the locals of one call of sendaudio and its stream

\* where sendaudio is: "config", "read", "send", "close", "returned"
sendPc == snd.pc
\* the messages stream.Send has sent, in order
stream == snd.stream
\* the bufsize argument
bufsize == snd.bufsize
\* bytes the audio reader has handed over
audioPos == snd.audioPos
\* n, err of the last audio.Read
rdN == snd.n
rdErr == snd.err
\* audio.Read has returned io.EOF or an error
readerEnded == snd.readerEnded
\* a stream.Send has returned an error
sendFailed == snd.sendFailed
\* calls of stream.CloseSend
nCloseSend == snd.nCloseSend
\* what sendaudio returned
sendRet == snd.ret

sendVars == <<snd>>

\* ---- the wake-word flow of waitForInput around one StoppableReader ----
VARIABLE wake           \* waitForInput and the goroutines of StreamingRecognize

\* where waitForInput is: "recognize", "rewind", "asr", "read", "fatal"
wakePc == wake.pc
\* the sending goroutine of StreamingRecognize has seen Read end
senderDone == wake.senderDone
\* what the first Read of the ASR stream returned
firstRead == wake.firstRead

wakeVars == <<wake>>

\* ---- the worker pool of the cubic transcribe command ----
VARIABLE pool           \* main, feedInputFiles and the transcribeFiles goroutines

\* main: "start", "wait", "exited", "panic"
mainPc == pool.mainPc
\* len(files)
fileCount == pool.fileCount
\* cfg.NumWorkers
cfgNumWorkers == pool.cfgNumWorkers
\* the capacity of fileChannel and the number of workers
numWorkers == pool.numWorkers
\* the files buffered in fileChannel
fileChannel == pool.fileChannel
\* close(fileChannel) has run
chanClosed == pool.chanClosed
\* files feedInputFiles has sent
fed == pool.fed
\* feedInputFiles: "none", "feed", "close", "exited"
feederPc == pool.feederPc
\* transcribeFiles of each worker: "recv", "work", "done", "exited"
workerPc == pool.workerPc
\* the files received from fileChannel, each with its worker
taken == pool.taken
\* the counter of wg
wgCount == pool.wgCount

poolVars == <<pool>>

\* ---- main of the Diatheke clients ----
VARIABLE dia            \* the locals of main

\* main: "create", "loop", "cleanup", "deleted", "panic", "returned"
sessPc == dia.pc
\* the session variable of main
session == dia.session
\* the err variable of main
sessErr == dia.err
\* the token DeleteSession was called with, 0 before
deletedToken == dia.deletedToken

sessVars == <<dia>>

\* The variables of the components other than the reader, the command server
\* and the parameter map.
otherVars == <<obs, srcErr, lk, snd, wake, pool, dia>>

\* Everything but the StoppableReader.
nonReaderVars == <<cmdModelFuncs, cmdFuncs, modelFuncs, registered, served,
                   params, typed, got, obs, srcErr, lk, snd, wake, pool, dia>>

allVars == <<vars, cmdVars, paramVars, otherVars>>

\* No Source read has failed in the last call.
NoFail == [n |-> 0, err |-> "nil", retN |-> 0, retErr |-> "nil"]

ObsInit ==
    obs = [resetPos |-> 0, okRewind |-> FALSE, tzRewind |-> FALSE]

ErrInit ==
    srcErr = [fail |-> NoFail, nFails |-> 0]

\* Largest bufsize handed to sendaudio.
MaxBuf == 2

\* sendaudio(stream, cfg, audio, bufsize) is about to be called.
SendInit ==
    snd = [pc |-> "config", stream |-> <<>>, bufsize |-> 0, audioPos |-> 0,
           n |-> 0, err |-> "nil", readerEnded |-> FALSE, sendFailed |-> FALSE,
           nCloseSend |-> 0, ret |-> "none"]

\* Most files loadFiles returns.
MaxFiles == 3

\* Largest cfg.NumWorkers.
MaxWorkers == 2

\* A nil *diathekepb.SessionOutput.
NilSession == [isNil |-> TRUE, token |-> 0, actionList |-> <<>>]

\* main is about to call client.CreateSession.
SessInit ==
    dia = [pc |-> "create", session |-> NilSession, err |-> FALSE, deletedToken |-> 0]

\* main has not yet read the configuration nor loaded the files.
PoolInit ==
    pool = [mainPc |-> "start", fileCount |-> 0, cfgNumWorkers |-> 0, numWorkers |-> 0,
            fileChannel |-> <<>>, chanClosed |-> FALSE, fed |-> 0, feederPc |-> "none",
            workerPc |-> <<>>, taken |-> <<>>, wgCount |-> 0]

\* waitForInput is about to call wwClient.StreamingRecognize.
WakeInit ==
    wake = [pc |-> "recognize", senderDone |-> FALSE, firstRead |-> "none"]

\* NewStoppableReader: the zero Mutex is unlocked, nobody has called yet.
LockInit ==
    lk = [mu |-> "free", rdAt |-> "idle", ctlAt |-> "idle", ctlOp |-> "none",
          paused |-> FALSE, replayLeft |-> 0, nCalls |-> 0, ctlWaited |-> FALSE]

\* A Go map with no entry.
EmptyMap == [k \in {} |-> "nil"]

\* m[k] = v on a Go map.
MapSet(m, k, v) == [x \in DOMAIN m \cup {k} |-> IF x = k THEN v ELSE m[x]]

\* No call has been made on the server yet.
NoServe == [op |-> "New", request |-> [ok |-> FALSE, fields |-> EmptyMap], status |-> 0,
            contentType |-> "", text |-> <<>>, body |-> EmptyMap,
            lookup |-> FALSE, calls |-> <<>>]

\* NewServer(logger): newRegistry() makes three empty maps.
CmdInit ==
    /\ cmdModelFuncs = EmptyMap
    /\ cmdFuncs = EmptyMap
    /\ modelFuncs = EmptyMap
    /\ registered = {}
    /\ served = NoServe

\* No call has been made on the map yet.
NoGet == [op |-> "New", key |-> "", s |-> <<>>, i |-> 0, b |-> FALSE, f |-> 0, err |-> FALSE]

\* make(Params)
ParamsInit ==
    /\ params = EmptyMap
    /\ typed = EmptyMap
    /\ got = NoGet

Min(a, b) == IF a < b THEN a ELSE b
Max(a, b) == IF a > b THEN a ELSE b

\* The Source: SrcLen distinct bytes b0..bn (byte i has value i+1), then EOF.
Source == [i \in 1..SrcLen |-> i]

\* What origReader.Read returns for the next n bytes at position pos.
SourceRead(pos, n) == SubSeq(Source, pos + 1, pos + n)

Offsets == (0 - OffsetSlack)..(SrcLen + OffsetSlack)

\* sr.appendReader = io.TeeReader(origReader, &sr.buffer)
appendReader == [multi |-> FALSE, partial |-> <<>>, stage |-> "append"]

\* io.MultiReader(bytes.NewReader(slice), sr.appendReader)
MultiReader(slice) == [multi |-> TRUE, partial |-> slice, stage |-> "partial"]

NoOp == [op |-> "New", n |-> 0, eof |-> FALSE, latched |-> FALSE, afterLatch |-> FALSE]

\* The record of a completed call: its name, what a Read returned (n bytes, EOF
\* or not, answered by the latch or not) and whether the call before it was a
\* Read answered by the latch.
Op(name, n, eof, latched) ==
    [op |-> name, n |-> n, eof |-> eof, latched |-> latched, afterLatch |-> lastOp.latched]

NoRewind == [offset |-> 0, rtz |-> FALSE, err |-> "nil", pos |-> 0, buf |-> <<>>]

\* The controller may still make a call.
CtlBudget == nStops + nRewinds + nResets < MaxCtl

\* NewStoppableReader(reader, maxBufferSize), next to a command server and a
\* parameter map nobody has used yet.
NewReader ==
    /\ srcPos = 0
    /\ buffer = <<>>
    /\ bufferStartOffset = 0
    /\ maxBufferSize \in 1..MaxHist
    /\ currentReader = appendReader
    /\ pauseRead = FALSE
    /\ rewindWithoutReset = FALSE
    /\ out = <<>>
    /\ lastOp = NoOp
    /\ lastRewind = NoRewind
    /\ pending = "none"
    /\ rewoundSinceReset = FALSE
    /\ nStops = 0 /\ nRewinds = 0 /\ nResets = 0 /\ nStopEOF = 0
    /\ CmdInit
    /\ ParamsInit

\* What a variable holds in the specifications that leave its component out.
Idle == <<>>

\* The components a specification leaves out.
NoObserver == obs = Idle
NoFailure == srcErr = Idle
NoGoroutines == lk = Idle
NoSend == snd = Idle
NoWake == wake = Idle
NoPool == pool = Idle
NoSession == dia = Idle

\* The StoppableReader alone.
Init ==
    /\ NewReader
    /\ NoObserver /\ NoFailure /\ NoGoroutines /\ NoSend /\ NoWake /\ NoPool /\ NoSession

\* ---- Read ----

\* Variant of ShouldPrune: the buffer is pruned one maxBufferSize later.
ShouldPruneLate(len, max) == len > (bufferSizeFactor + 1) * max

\* Variant of ShouldPrune: the buffer is pruned as soon as it reaches the threshold.
ShouldPruneAtThreshold(len, max) == len >= bufferSizeFactor * max

\* if sr.buffer.Len() > int(sr.bufferSizeFactor)*sr.maxBufferSize
ShouldPrune(len, max) == len > bufferSizeFactor * max

\* The slice index sr.buffer.Len()-sr.maxBufferSize of the prune.
PruneIndex(len, max) == len - max

\* Variant of PruneBuffer: the oldest maxBufferSize bytes are kept.
PruneBufferFront(buf, max) == SubSeq(buf, 1, max)

\* sr.buffer.Bytes()[sr.buffer.Len()-sr.maxBufferSize:]
PruneBuffer(buf, max) == SubSeq(buf, PruneIndex(Len(buf), max) + 1, Len(buf))

\* Variant of PruneOffset: the start offset advances by the whole old length.
PruneOffsetWhole(start, origLen, max) == start + origLen

\* sr.bufferStartOffset += origLen - sr.maxBufferSize
PruneOffset(start, origLen, max) == start + (origLen - max)

\* The buffer and its start offset after the "shrink the buffer" block of Read.
Shrunk(buf, start, max) ==
    IF ShouldPrune(Len(buf), max)
    THEN [buffer |-> PruneBuffer(buf, max), start |-> PruneOffset(start, Len(buf), max)]
    ELSE [buffer |-> buf, start |-> start]

\* Variant of ReadPaused: the buffer is shrunk before the latch is looked at.
ReadPausedPrunes(p) ==
    /\ pauseRead
    /\ pauseRead' = FALSE
    /\ buffer' = Shrunk(buffer, bufferStartOffset, maxBufferSize).buffer
    /\ bufferStartOffset' = Shrunk(buffer, bufferStartOffset, maxBufferSize).start
    /\ nStopEOF' = nStopEOF + 1
    /\ lastOp' = Op("Read", 0, TRUE, TRUE)
    /\ pending' = "none"
    /\ UNCHANGED <<srcPos, maxBufferSize, currentReader,
                   rewindWithoutReset, out, lastRewind, rewoundSinceReset,
                   nStops, nRewinds, nResets>>

\* Variant of ReadPaused: the latch is reported but not cleared.
ReadPausedSticky(p) ==
    /\ pauseRead
    /\ pauseRead' = pauseRead
    /\ nStopEOF' = nStopEOF + 1
    /\ lastOp' = Op("Read", 0, TRUE, TRUE)
    /\ pending' = "none"
    /\ UNCHANGED <<srcPos, buffer, bufferStartOffset, maxBufferSize, currentReader,
                   rewindWithoutReset, out, lastRewind, rewoundSinceReset,
                   nStops, nRewinds, nResets>>

\* The first branch of Read: the latch is consumed, nothing else is touched.
ReadPaused(p) ==
    /\ pauseRead
    /\ pauseRead' = FALSE
    /\ nStopEOF' = nStopEOF + 1
    /\ lastOp' = Op("Read", 0, TRUE, TRUE)
    /\ pending' = "none"
    /\ UNCHANGED <<srcPos, buffer, bufferStartOffset, maxBufferSize, currentReader,
                   rewindWithoutReset, out, lastRewind, rewoundSinceReset,
                   nStops, nRewinds, nResets>>

\* sr.currentReader.Read(p) served by the bytes.Reader at the head of the MultiReader.
ReadReplay(p, sh) ==
    /\ currentReader.stage = "partial" /\ currentReader.partial # <<>>
    /\ LET n == Min(p, Len(currentReader.partial))
           data == SubSeq(currentReader.partial, 1, n)
       IN /\ currentReader' = [currentReader EXCEPT
                                  !.partial = SubSeq(@, n + 1, Len(@))]
          /\ out' = out \o data
          /\ lastOp' = Op("Read", n, FALSE, FALSE)
    /\ buffer' = sh.buffer
    /\ bufferStartOffset' = sh.start
    /\ UNCHANGED srcPos

\* Variant of ReadLive: the caller is handed bytes from the front of the
\* history buffer instead of the bytes just teed into it.
ReadLiveStale(p, sh) ==
    /\ \/ currentReader.stage = "append"
       \/ currentReader.stage = "partial" /\ currentReader.partial = <<>>
    /\ srcPos < SrcLen
    /\ \E n \in 1..Min(p, SrcLen - srcPos) :
         LET data == SourceRead(srcPos, n)
         IN /\ srcPos' = srcPos + n
            /\ buffer' = sh.buffer \o data
            /\ out' = out \o SubSeq(sh.buffer \o data, 1, n)
            /\ lastOp' = Op("Read", n, FALSE, FALSE)
    /\ bufferStartOffset' = sh.start
    /\ currentReader' = [currentReader EXCEPT !.stage = "append"]

\* sr.currentReader.Read(p) served by the TeeReader: the Source hands over
\* n bytes (1 <= n <= len(p), a Reader may return fewer than asked), which
\* are written to sr.buffer and returned.
ReadLive(p, sh) ==
    /\ \/ currentReader.stage = "append"
       \/ currentReader.stage = "partial" /\ currentReader.partial = <<>>
    /\ srcPos < SrcLen
    /\ \E n \in 1..Min(p, SrcLen - srcPos) :
         LET data == SourceRead(srcPos, n)
         IN /\ srcPos' = srcPos + n
            /\ buffer' = sh.buffer \o data
            /\ out' = out \o data
            /\ lastOp' = Op("Read", n, FALSE, FALSE)
    /\ bufferStartOffset' = sh.start
    /\ currentReader' = [currentReader EXCEPT !.stage = "append"]

\* sr.currentReader.Read(p) when the Source is exhausted (or the MultiReader
\* has already seen its last reader end): 0, io.EOF.
ReadEOF(p, sh) ==
    /\ \/ currentReader.stage = "done"
       \/ /\ srcPos = SrcLen
          /\ \/ currentReader.stage = "append"
             \/ currentReader.stage = "partial" /\ currentReader.partial = <<>>
    /\ currentReader' = IF currentReader.multi
                        THEN [currentReader EXCEPT !.stage = "done"]
                        ELSE currentReader
    /\ buffer' = sh.buffer
    /\ bufferStartOffset' = sh.start
    /\ lastOp' = Op("Read", 0, TRUE, FALSE)
    /\ UNCHANGED <<srcPos, out>>

\* func (sr *StoppableReader) Read(p []byte) (n int, err error)
Read ==
    \E p \in 1..MaxRead :
       \/ ReadPaused(p)
       \/ /\ ~pauseRead
          /\ LET sh == Shrunk(buffer, bufferStartOffset, maxBufferSize)
             IN ReadReplay(p, sh) \/ ReadLive(p, sh) \/ ReadEOF(p, sh)
          /\ pending' = "none"
          /\ UNCHANGED <<maxBufferSize, pauseRead, rewindWithoutReset, lastRewind,
                         rewoundSinceReset, nStops, nRewinds, nResets, nStopEOF>>

\* ---- Stop ----

\* Variant of Stop: the call flips the latch instead of setting it.
StopToggles ==
    /\ CtlBudget
    /\ pauseRead' = ~pauseRead
    /\ nStops' = nStops + 1
    /\ lastOp' = Op("Stop", 0, FALSE, FALSE)
    /\ pending' = "stop"
    /\ UNCHANGED <<srcPos, buffer, bufferStartOffset, maxBufferSize, currentReader,
                   rewindWithoutReset, out, lastRewind, rewoundSinceReset,
                   nRewinds, nResets, nStopEOF>>

\* func (sr *StoppableReader) Stop()
Stop ==
    /\ CtlBudget
    /\ pauseRead' = TRUE
    /\ nStops' = nStops + 1
    /\ lastOp' = Op("Stop", 0, FALSE, FALSE)
    /\ pending' = "stop"
    /\ UNCHANGED <<srcPos, buffer, bufferStartOffset, maxBufferSize, currentReader,
                   rewindWithoutReset, out, lastRewind, rewoundSinceReset,
                   nRewinds, nResets, nStopEOF>>

\* ---- Rewind ----

\* Variant of RewindErr: the guard is never reported.
RewindErrNoGuard(offset, start, len, guard) ==
    IF offset < start THEN "DataLoss"
    ELSE IF offset > start + len THEN "Future"
    ELSE "nil"

\* The error Rewind returns: the double-rewind error is assigned first and
\* overwritten by either range error.
RewindErr(offset, start, len, guard) ==
    IF offset < start THEN "DataLoss"
    ELSE IF offset > start + len THEN "Future"
    ELSE IF guard THEN "DoubleRewind"
    ELSE "nil"

\* Variant of AdjustedOffset: the offset is used as an index into the buffer
\* without subtracting the buffer's start offset.
AdjustedOffsetUnshifted(offset, start) ==
    IF offset < start \/ offset < 0 THEN 0 ELSE offset

\* Variant of AdjustedOffset: an offset before the buffer start replays from
\* the second buffered byte.
AdjustedOffsetSkipsFirst(offset, start) ==
    IF offset < start THEN 1 ELSE offset - start

\* adjustedOffset for the two branches that go on to build the MultiReader.
AdjustedOffset(offset, start) ==
    IF offset < start THEN 0 ELSE offset - start

\* sr.bufferStartOffset = -(adjustedOffset + sr.buffer.Len() - adjustedOffset)
TimeZeroOffset(adjustedOffset, len) == 0 - ((adjustedOffset + len) - adjustedOffset)

\* Variant of RewindReader: an offset before the buffer start falls back to
\* the plain appendReader, as an offset past its end does.
RewindReaderLiveOnLoss(offset, start, buf) ==
    IF offset < start \/ offset > start + Len(buf)
    THEN appendReader
    ELSE MultiReader(SubSeq(buf, AdjustedOffset(offset, start) + 1, Len(buf)))

\* sr.currentReader after Rewind.
RewindReader(offset, start, buf) ==
    IF offset >= start /\ offset > start + Len(buf)
    THEN appendReader
    ELSE MultiReader(SubSeq(buf, AdjustedOffset(offset, start) + 1, Len(buf)))

\* Variant of RewindStart: the future branch does not return early, so
\* resetTimeZero is applied there too.
RewindStartNoReturn(offset, rtz, start, len) ==
    IF rtz THEN TimeZeroOffset(AdjustedOffset(offset, start), len)
    ELSE start

\* sr.bufferStartOffset after Rewind.
RewindStart(offset, rtz, start, len) ==
    IF offset >= start /\ offset > start + len THEN start
    ELSE IF rtz THEN TimeZeroOffset(AdjustedOffset(offset, start), len)
    ELSE start

\* Variant of Rewind: the guard is set only by a call that returns nil.
RewindGuardOnSuccess ==
    /\ CtlBudget
    /\ \E offset \in Offsets, rtz \in BOOLEAN :
         LET err == RewindErr(offset, bufferStartOffset, Len(buffer), rewindWithoutReset)
         IN /\ rewindWithoutReset' = (rewindWithoutReset \/ err = "nil")
            /\ currentReader' = RewindReader(offset, bufferStartOffset, buffer)
            /\ bufferStartOffset' = RewindStart(offset, rtz, bufferStartOffset, Len(buffer))
            /\ lastOp' = Op("Rewind", 0, FALSE, FALSE)
            /\ lastRewind' = [offset |-> offset, rtz |-> rtz, err |-> err, pos |-> srcPos,
                              buf |-> buffer]
    /\ nRewinds' = nRewinds + 1
    /\ out' = <<>>
    /\ rewoundSinceReset' = TRUE
    /\ UNCHANGED <<srcPos, buffer, maxBufferSize, pauseRead, pending,
                   nStops, nResets, nStopEOF>>

\* Variant of Rewind: the call also clears the stop latch.
RewindDropsStop ==
    /\ CtlBudget
    /\ \E offset \in Offsets, rtz \in BOOLEAN :
         LET err == RewindErr(offset, bufferStartOffset, Len(buffer), rewindWithoutReset)
         IN /\ rewindWithoutReset' = TRUE
            /\ currentReader' = RewindReader(offset, bufferStartOffset, buffer)
            /\ bufferStartOffset' = RewindStart(offset, rtz, bufferStartOffset, Len(buffer))
            /\ lastOp' = Op("Rewind", 0, FALSE, FALSE)
            /\ lastRewind' = [offset |-> offset, rtz |-> rtz, err |-> err, pos |-> srcPos,
                              buf |-> buffer]
    /\ nRewinds' = nRewinds + 1
    /\ out' = <<>>
    /\ rewoundSinceReset' = TRUE
    /\ pauseRead' = FALSE
    /\ UNCHANGED <<srcPos, buffer, maxBufferSize, pending,
                   nStops, nResets, nStopEOF>>

\* func (sr *StoppableReader) Rewind(offset int, resetTimeZero bool) error
Rewind ==
    /\ CtlBudget
    /\ \E offset \in Offsets, rtz \in BOOLEAN :
         LET err == RewindErr(offset, bufferStartOffset, Len(buffer), rewindWithoutReset)
         IN /\ rewindWithoutReset' = TRUE
            /\ currentReader' = RewindReader(offset, bufferStartOffset, buffer)
            /\ bufferStartOffset' = RewindStart(offset, rtz, bufferStartOffset, Len(buffer))
            /\ lastOp' = Op("Rewind", 0, FALSE, FALSE)
            /\ lastRewind' = [offset |-> offset, rtz |-> rtz, err |-> err, pos |-> srcPos,
                              buf |-> buffer]
    /\ nRewinds' = nRewinds + 1
    /\ out' = <<>>
    /\ rewoundSinceReset' = TRUE
    /\ UNCHANGED <<srcPos, buffer, maxBufferSize, pauseRead, pending,
                   nStops, nResets, nStopEOF>>

\* ---- Reset ----

\* Variant of Reset: the stop latch is set instead of cleared.
ResetSetsLatch ==
    /\ CtlBudget
    /\ buffer' = <<>>
    /\ currentReader' = appendReader
    /\ bufferStartOffset' = 0
    /\ pauseRead' = TRUE
    /\ rewindWithoutReset' = FALSE
    /\ nResets' = nResets + 1
    /\ lastOp' = Op("Reset", 0, FALSE, FALSE)
    /\ pending' = IF pending = "none" THEN "none" ELSE "stopThenReset"
    /\ rewoundSinceReset' = FALSE
    /\ UNCHANGED <<srcPos, maxBufferSize, out, lastRewind, nStops, nRewinds, nStopEOF>>

\* Variant of Reset: the stop latch is left as it was.
ResetKeepsLatch ==
    /\ CtlBudget
    /\ buffer' = <<>>
    /\ currentReader' = appendReader
    /\ bufferStartOffset' = 0
    /\ pauseRead' = pauseRead
    /\ rewindWithoutReset' = FALSE
    /\ nResets' = nResets + 1
    /\ lastOp' = Op("Reset", 0, FALSE, FALSE)
    /\ pending' = IF pending = "none" THEN "none" ELSE "stopThenReset"
    /\ rewoundSinceReset' = FALSE
    /\ UNCHANGED <<srcPos, maxBufferSize, out, lastRewind, nStops, nRewinds, nStopEOF>>

\* func (sr *StoppableReader) Reset()
Reset ==
    /\ CtlBudget
    /\ buffer' = <<>>
    /\ currentReader' = appendReader
    /\ bufferStartOffset' = 0
    /\ pauseRead' = FALSE
    /\ rewindWithoutReset' = FALSE
    /\ nResets' = nResets + 1
    /\ lastOp' = Op("Reset", 0, FALSE, FALSE)
    /\ pending' = IF pending = "none" THEN "none" ELSE "stopThenReset"
    /\ rewoundSinceReset' = FALSE
    /\ UNCHANGED <<srcPos, maxBufferSize, out, lastRewind, nStops, nRewinds, nStopEOF>>

Next ==
    \/ Read /\ UNCHANGED nonReaderVars
    \/ Stop /\ UNCHANGED nonReaderVars
    \/ Rewind /\ UNCHANGED nonReaderVars
    \/ Reset /\ UNCHANGED nonReaderVars

Spec == Init /\ [][Next]_allVars

TypeOK ==
    /\ srcPos \in 0..SrcLen
    /\ Len(buffer) <= SrcLen
    /\ pauseRead \in BOOLEAN /\ rewindWithoutReset \in BOOLEAN
    /\ currentReader.stage \in {"partial", "append", "done"}

\* ---- notions the properties share ----

\* The Active Cursor still has replay bytes to hand out.
Replaying == currentReader.stage = "partial" /\ currentReader.partial # <<>>

\* offset lies inside the retained buffer (third branch of Rewind).
InBuffer(offset) ==
    /\ bufferStartOffset <= offset
    /\ offset <= bufferStartOffset + Len(buffer)

\* The step is a completed call of the named method.
Called(name) == lastOp'.op = name

\* A Read step that behaves normally: it hands out the next replay bytes if
\* any are pending, otherwise the next bytes of the Source, and reports EOF
\* only when the Source is exhausted.
NormalRead ==
    /\ ~lastOp'.latched
    /\ IF Replaying
       THEN /\ lastOp'.n > 0 /\ ~lastOp'.eof
            /\ out' = out \o SubSeq(currentReader.partial, 1, lastOp'.n)
            /\ srcPos' = srcPos
       ELSE IF srcPos < SrcLen
       THEN /\ lastOp'.n > 0 /\ ~lastOp'.eof
            /\ out' = out \o SourceRead(srcPos, lastOp'.n)
            /\ srcPos' = srcPos + lastOp'.n
       ELSE lastOp'.eof /\ lastOp'.n = 0 /\ out' = out

\* ---- C1 ----
\* C1: after live Reads only, a Rewind(j, false) with j inside the retained
\* buffer makes the following Reads return b_j..b_k and then the live bytes
\* b_{k+1}.. in source order, nothing duplicated or missing, and EOF is
\* reported only when the Source is exhausted and everything was delivered.
C1_RewindReplay ==
    (/\ nRewinds = 1 /\ nResets = 0 /\ nStops = 0
     /\ lastRewind.err = "nil" /\ ~lastRewind.rtz)
    => /\ lastRewind.offset >= 0
       /\ lastRewind.offset + Len(out) <= SrcLen
       /\ out = SubSeq(Source, lastRewind.offset + 1, lastRewind.offset + Len(out))
       /\ Replaying => lastRewind.offset + Len(out) < lastRewind.pos
       /\ ~Replaying /\ Len(out) > 0 => lastRewind.offset + Len(out) = srcPos
       /\ (lastOp.op = "Read" /\ lastOp.eof)
             => srcPos = SrcLen /\ lastRewind.offset + Len(out) = SrcLen

\* The scenario of the example, scaled: read 4 bytes, Rewind(2, false), read
\* to the end: positions 2..3 replayed, the rest of the Source live, then EOF.
C1_Witness ==
    /\ nRewinds = 1 /\ nResets = 0 /\ nStops = 0
    /\ lastRewind.offset = 2 /\ ~lastRewind.rtz /\ lastRewind.err = "nil"
    /\ lastRewind.pos = 4
    /\ out = SubSeq(Source, 3, SrcLen)
    /\ lastOp.op = "Read" /\ lastOp.eof

\* ---- C2 ----
\* C2: the Read that follows a Stop returns 0 bytes and EOF and clears the
\* latch without touching the stream; the Read after that one is a normal
\* Read from the current cursor (replay bytes or the next Source bytes).
C2_StopOneShot ==
    [][ /\ (lastOp.op = "Stop" /\ Called("Read"))
             => /\ lastOp'.n = 0 /\ lastOp'.eof /\ lastOp'.latched
                /\ ~pauseRead'
                /\ out' = out /\ srcPos' = srcPos /\ currentReader' = currentReader
        /\ (lastOp.op = "Read" /\ lastOp.latched /\ Called("Read")) => NormalRead
      ]_vars

\* A Read that returned data right after the Read that consumed the latch.
C2_Witness ==
    /\ lastOp.op = "Read" /\ lastOp.afterLatch /\ lastOp.n > 0
    /\ nStops = 1 /\ nStopEOF = 1

\* ---- C3 ----
\* C3 as stated: a Rewind to an offset before the Buffer Start Offset returns
\* DataLoss and leaves the cursor in live-passthrough, nothing is replayed.
C3_Original ==
    (lastOp.op = "Rewind" /\ lastRewind.err = "DataLoss") => ~Replaying

\* C3 amended: a Rewind to an offset before the Buffer Start Offset returns
\* DataLoss, leaves the History Buffer alone and sets the cursor to
\* replay-then-live over the whole retained buffer, from its first byte.
C3_RewindPastReplaysAll ==
    [][ (Called("Rewind") /\ lastRewind'.offset < bufferStartOffset)
          => /\ lastRewind'.err = "DataLoss"
             /\ currentReader' = MultiReader(buffer)
             /\ buffer' = buffer
      ]_vars

\* A Rewind to a pruned-away offset with bytes still in the buffer.
C3_Witness ==
    /\ lastOp.op = "Rewind" /\ lastRewind.err = "DataLoss" /\ ~lastRewind.rtz
    /\ bufferStartOffset > 0 /\ lastRewind.offset >= 0
    /\ Replaying /\ currentReader.partial = buffer

\* ---- C4 ----
\* C4: after Rewind(offset, true) with offset inside the retained buffer the
\* rewound point is position 0: the Buffer Start Offset is minus the number
\* of buffered bytes before the rewound point.
C4_TimeZeroAtRewoundPoint ==
    [][ (Called("Rewind") /\ lastRewind'.rtz /\ InBuffer(lastRewind'.offset))
          => bufferStartOffset' = 0 - (lastRewind'.offset - bufferStartOffset)
      ]_vars

\* ---- C5 ----
\* C5: after live Reads only (with the prunes they trigger) the History
\* Buffer holds the most recent bytes read, at least min(M, bytes read) of
\* them, and a Rewind to any position j of the stream within M of the
\* position P just past the last byte read returns no DataLoss error.
C5_WindowRetained ==
    /\ (nRewinds = 0 /\ nResets = 0)
         => /\ Len(buffer) >= Min(maxBufferSize, srcPos)
            /\ Len(buffer) <= srcPos
            /\ buffer = SubSeq(Source, srcPos - Len(buffer) + 1, srcPos)
            /\ bufferStartOffset + Len(buffer) = srcPos
    /\ (/\ nRewinds = 1 /\ nResets = 0 /\ lastOp.op = "Rewind"
        /\ lastRewind.offset >= Max(0, srcPos - maxBufferSize)
        /\ lastRewind.offset <= srcPos)
         => lastRewind.err = "nil"

\* A Rewind to exactly M bytes back, after pruning and a further live Read.
C5_Witness ==
    /\ nRewinds = 1 /\ nResets = 0 /\ lastOp.op = "Rewind" /\ ~lastRewind.rtz
    /\ bufferStartOffset > 0 /\ Len(buffer) > maxBufferSize
    /\ lastRewind.offset = srcPos - maxBufferSize
    /\ lastRewind.err = "nil"

\* ---- C6 ----
\* C6 as stated: a second Rewind with no Reset in between returns the
\* double-rewind error whatever the two offsets are, and is performed.
C6_Original ==
    [][ (rewoundSinceReset /\ Called("Rewind"))
          => lastRewind'.err = "DoubleRewind" /\ currentReader'.multi
      ]_vars

\* C6 amended: a second Rewind with no Reset in between always returns an
\* error; when its offset lies inside the retained buffer the error is the
\* double-rewind error and the rewind is performed from that offset.
C6_DoubleRewindGuard ==
    [][ (rewoundSinceReset /\ Called("Rewind"))
          => /\ lastRewind'.err # "nil"
             /\ InBuffer(lastRewind'.offset)
                  => /\ lastRewind'.err = "DoubleRewind"
                     /\ currentReader' = MultiReader(SubSeq(buffer,
                            lastRewind'.offset - bufferStartOffset + 1, Len(buffer)))
      ]_vars

\* A second in-range Rewind that reported the double rewind and replays.
C6_Witness ==
    /\ lastOp.op = "Rewind" /\ nRewinds = 2 /\ nResets = 0
    /\ lastRewind.err = "DoubleRewind" /\ Replaying

\* ---- C7 ----
\* C7: when Stop and Rewind are never called, the bytes returned by the
\* Reads so far are exactly the bytes consumed from the Source, in order.
C7_Passthrough ==
    (nStops = 0 /\ nRewinds = 0) => out = SubSeq(Source, 1, srcPos)

\* The whole Source was passed through, with pruning on the way.
C7_Witness ==
    /\ nStops = 0 /\ nRewinds = 0 /\ nResets = 0
    /\ srcPos = SrcLen /\ Len(out) = SrcLen /\ bufferStartOffset > 0
    /\ lastOp.op = "Read" /\ lastOp.eof

\* ---- C8 ----
\* C8 as stated: a Stop that has returned makes the first Read that starts
\* after it return 0 bytes and EOF, whatever was called in between.
C8_Original ==
    [][ (pending # "none" /\ Called("Read")) => lastOp'.n = 0 /\ lastOp'.eof ]_vars

\* C8 amended: a Stop that has returned makes the first Read that starts
\* after it return 0 bytes and EOF unless a Reset was called in between,
\* which discards the pending Stop; Rewind does not discard it; and a Read
\* reports EOF before the stream has ended only when a Stop was pending, so
\* one Stop makes at most one Read report EOF.
C8_StopNotLost ==
    [][ Called("Read")
          => /\ pending = "stop"
                  => /\ lastOp'.n = 0 /\ lastOp'.eof
                     /\ out' = out /\ srcPos' = srcPos
             /\ (lastOp'.eof /\ (srcPos < SrcLen \/ Replaying)) => pending = "stop"
             /\ pending = "stopThenReset" => NormalRead
      ]_vars

\* A Stop that stayed pending across a Rewind and was then observed by a Read.
C8_Witness ==
    /\ lastOp.op = "Read" /\ lastOp.eof /\ lastOp.n = 0 /\ lastOp.afterLatch = FALSE
    /\ nStops = 1 /\ nStopEOF = 1 /\ nRewinds = 1 /\ out = <<>>
    /\ Replaying

\* ---- C9 ----
\* C9: a Rewind to an offset past the end of the buffer returns an error,
\* sets the cursor to live-passthrough and changes neither the History
\* Buffer nor the Buffer Start Offset, resetTimeZero or not.
C9_RewindFuture ==
    [][ (Called("Rewind") /\ lastRewind'.offset > bufferStartOffset + Len(buffer))
          => /\ lastRewind'.err = "Future"
             /\ currentReader' = appendReader
             /\ buffer' = buffer
             /\ bufferStartOffset' = bufferStartOffset
      ]_vars

\* A future Rewind with resetTimeZero, made while data was buffered after an
\* earlier Rewind.
C9_Witness ==
    /\ lastOp.op = "Rewind" /\ lastRewind.err = "Future" /\ lastRewind.rtz
    /\ nRewinds = 2 /\ nResets = 0 /\ Len(buffer) > 0
    /\ currentReader = appendReader

\* ---- C10 ----
\* C10: after Reset the History Buffer is empty, the Buffer Start Offset is
\* 0, both flags are clear and the cursor is live-passthrough; the next
\* Rewind does not report a double rewind and the next Read reads fresh
\* bytes from the Source.
C10_ResetRestores ==
    /\ [](lastOp.op = "Reset"
            => /\ buffer = <<>>
               /\ bufferStartOffset = 0
               /\ ~pauseRead /\ ~rewindWithoutReset
               /\ currentReader = appendReader)
    /\ [][ /\ (lastOp.op = "Reset" /\ Called("Rewind"))
                => lastRewind'.err # "DoubleRewind"
           /\ (lastOp.op = "Reset" /\ Called("Read"))
                => /\ NormalRead
                   /\ buffer' = SubSeq(Source, srcPos + 1, srcPos')
         ]_vars

\* A Reset made while a Stop was pending, after a time-zero Rewind and Reads.
C10_Witness ==
    /\ lastOp.op = "Reset" /\ pending = "stopThenReset"
    /\ nRewinds >= 1 /\ lastRewind.rtz /\ lastRewind.err = "nil" /\ srcPos > 0

\* ---- notions the later properties share ----

\* The fields of the StoppableReader and the position of its Source.
srState == <<srcPos, buffer, bufferStartOffset, maxBufferSize, currentReader,
             pauseRead, rewindWithoutReset>>

\* The state NewStoppableReader and Reset leave behind.
FreshState ==
    /\ buffer = <<>> /\ bufferStartOffset = 0
    /\ ~pauseRead /\ ~rewindWithoutReset
    /\ currentReader = appendReader

\* ---- C11 ----
\* C11: a Reset of a freshly constructed or freshly reset reader changes no
\* field of the reader (so what follows Reset();Reset() is what follows one
\* Reset()).
C11_ResetIdempotent ==
    [][ ((lastOp.op \in {"New", "Reset"} \/ FreshState) /\ Called("Reset"))
          => UNCHANGED srState
      ]_vars

\* Two Resets in a row on a newly constructed reader.
C11_Witness ==
    /\ lastOp.op = "Reset" /\ nResets = 2 /\ nStops = 0 /\ nRewinds = 0
    /\ srcPos = 0 /\ FreshState

\* ---- C12 ----
\* C12: a Stop that follows a Stop changes no field of the reader; after any
\* number of Stops the next Read returns 0 bytes and EOF and clears the
\* latch, and the Read after that one is not answered by the latch.
C12_StopIdempotent ==
    [][ /\ (lastOp.op = "Stop" /\ Called("Stop")) => UNCHANGED srState
        /\ (lastOp.op = "Stop" /\ Called("Read"))
             => lastOp'.eof /\ lastOp'.n = 0 /\ ~pauseRead'
        /\ (lastOp.op = "Read" /\ lastOp.latched /\ Called("Read"))
             => ~(lastOp'.eof /\ (srcPos < SrcLen \/ Replaying))
      ]_vars

\* Stop, Stop, the Read that reports EOF, then a Read that returns data.
C12_Witness ==
    /\ lastOp.op = "Read" /\ lastOp.afterLatch /\ lastOp.n > 0
    /\ nStops = 2 /\ nStopEOF = 1 /\ nRewinds = 0 /\ nResets = 0

\* ---- C13 ----
\* C13: after a Rewind to an offset before the buffer start (which returns an
\* error), the Reads return the whole buffer as it was at the Rewind, from its
\* first byte, and then the live bytes that follow it in the Source.
C13_BestEffortReplay ==
    (rewoundSinceReset /\ lastRewind.err = "DataLoss")
    => LET expected == lastRewind.buf \o SubSeq(Source, lastRewind.pos + 1, SrcLen)
       IN /\ Len(out) <= Len(expected)
          /\ out = SubSeq(expected, 1, Len(out))
          /\ Len(out) < Len(lastRewind.buf) => Replaying /\ srcPos = lastRewind.pos
          /\ Len(out) >= Len(lastRewind.buf)
               => ~Replaying /\ srcPos - lastRewind.pos = Len(out) - Len(lastRewind.buf)

\* The retained buffer was replayed in full and a live byte followed it.
C13_Witness ==
    /\ rewoundSinceReset /\ lastRewind.err = "DataLoss"
    /\ Len(lastRewind.buf) >= 2 /\ lastRewind.offset >= 0
    /\ Len(out) > Len(lastRewind.buf)
    /\ lastOp.op = "Read"

\* ---- C14 ----
\* C14: with maxBufferSize > 0 every slice index stays inside the buffer:
\* the index of the prune in Read and adjustedOffset in the two branches of
\* Rewind that slice the buffer lie in 0..len(buffer).
C14_NoPanic ==
    [][ /\ (Called("Read") /\ ~pauseRead /\ ShouldPrune(Len(buffer), maxBufferSize))
             => PruneIndex(Len(buffer), maxBufferSize) \in 0..Len(buffer)
        /\ (Called("Rewind")
               /\ ~(lastRewind'.offset > bufferStartOffset + Len(buffer)))
             => AdjustedOffset(lastRewind'.offset, bufferStartOffset) \in 0..Len(buffer)
      ]_vars

\* A Rewind to a negative offset that lies inside the buffer (after a
\* time-zero Rewind made the start offset negative).
C14_Witness ==
    /\ lastOp.op = "Rewind" /\ lastRewind.offset < 0
    /\ lastRewind.err = "DoubleRewind" /\ Len(buffer) >= 2

\* ---- C20 ----
\* C20: a Read whose latch is clear first cuts a buffer longer than
\* 2 x maxBufferSize down to its last maxBufferSize bytes and advances the
\* start offset by the number of bytes dropped; a buffer that is not longer
\* loses nothing and keeps its start offset.  The bytes the Read takes from
\* the Source are appended after that.
C20_PruningRule ==
    [][ (Called("Read") /\ ~pauseRead)
          => LET len == Len(buffer)
                 fresh == SourceRead(srcPos, srcPos' - srcPos)
             IN IF len > 2 * maxBufferSize
                THEN /\ buffer' = SubSeq(buffer, len - maxBufferSize + 1, len) \o fresh
                     /\ bufferStartOffset' = bufferStartOffset + (len - maxBufferSize)
                ELSE /\ buffer' = buffer \o fresh
                     /\ bufferStartOffset' = bufferStartOffset
      ]_vars

\* A prune with maxBufferSize = 2 has just cut the buffer to its last 2 bytes.
C20_Witness ==
    /\ lastOp.op = "Read" /\ maxBufferSize = 2 /\ nRewinds = 0 /\ nResets = 0
    /\ bufferStartOffset = SrcLen - 2 /\ buffer = SubSeq(Source, SrcLen - 1, SrcLen)


\* ======================================================================
\* The command server (cmdserver/server.go, cmdserver/datatypes.go)
\* ======================================================================

\* Registrations the server may hold at once.
MaxRegs == 2

StatusOK == 200
StatusBadRequest == 400
StatusInternalServerError == 500

\* Model and command IDs handlers are registered for.
ModelIDs == {"m1", "m2"}
CommandIDs == {"c1", "c2"}

\* The handlers an application registers; "nil" is the nil Handler.
Handlers == {"hKeep", "hReplace", "hFail", "nil"}

\* cmdModelPair{cmdID, modelID}
cmdModelPair(cmdID, modelID) == <<cmdID, modelID>>

\* The zero Input and its fields as the JSON tags of datatypes.go name them.
ZeroInput == [ModelID |-> "", CommandID |-> "", Parameters |-> EmptyMap, Metadata |-> ""]

\* A request body that is not JSON.
BadBody == [ok |-> FALSE, fields |-> EmptyMap]

\* The parameters a request carries when it carries some.
SomeParams == MapSet(EmptyMap, "a", "some data")

\* A JSON object holding the keys K of a request.
RequestObject(K, m, c) ==
    [k \in K |-> CASE k = "modelID" -> m
                   [] k = "id" -> c
                   [] k = "inputParameters" -> SomeParams
                   [] k = "metadata" -> "md"]

\* The request bodies a client sends: one that is not JSON, and JSON objects with
\* any of the keys of Input present, naming model m1 and command c1 when they
\* name one (handlers are registered for these and for other IDs).
Bodies ==
    {BadBody} \cup
    { [ok |-> TRUE, fields |-> RequestObject(K, "m1", "c1")] :
        K \in SUBSET {"modelID", "id", "inputParameters", "metadata"} }

\* The value of key k in a JSON object, the zero value when the key is missing.
Field(obj, k, zero) == IF k \in DOMAIN obj THEN obj[k] ELSE zero

\* decoder.Decode(&input) that never fails: a body that is not JSON leaves the zero Input.
DecodeInputLenient(body) ==
    [err |-> FALSE,
     input |-> [ModelID |-> Field(body.fields, "modelID", ""),
                CommandID |-> Field(body.fields, "id", ""),
                Parameters |-> Field(body.fields, "inputParameters", EmptyMap),
                Metadata |-> Field(body.fields, "metadata", "")]]

\* decoder.Decode(&input): an error for a body that is not JSON, else the Input
\* with each field taken from its JSON key and the zero value for a missing key.
DecodeInput(body) ==
    IF ~body.ok
    THEN [err |-> TRUE, input |-> ZeroInput]
    ELSE [err |-> FALSE,
          input |-> [ModelID |-> Field(body.fields, "modelID", ""),
                     CommandID |-> Field(body.fields, "id", ""),
                     Parameters |-> Field(body.fields, "inputParameters", EmptyMap),
                     Metadata |-> Field(body.fields, "metadata", "")]]

\* encoder.Encode(&output): "id" always, the other keys only when not empty (omitempty).
EncodeOutput(output) ==
    LET K == {"id"}
             \cup (IF DOMAIN output.Parameters # {} THEN {"outParameters"} ELSE {})
             \cup (IF output.Metadata # "" THEN {"metadata"} ELSE {})
             \cup (IF output.Error # "" THEN {"error"} ELSE {})
    IN  [k \in K |-> CASE k = "id" -> output.CommandID
                       [] k = "outParameters" -> output.Parameters
                       [] k = "metadata" -> output.Metadata
                       [] k = "error" -> output.Error]

\* What the client reads back from a response body: json decoding into an Output.
DecodeOutput(obj) ==
    [CommandID |-> Field(obj, "id", ""),
     Parameters |-> Field(obj, "outParameters", EmptyMap),
     Metadata |-> Field(obj, "metadata", ""),
     Error |-> Field(obj, "error", "")]


\* A Go map lookup m[k]: the value and whether the key is present (nil when it is not).
Lookup(m, k) == IF k \in DOMAIN m THEN [handler |-> m[k], found |-> TRUE]
                ELSE [handler |-> "nil", found |-> FALSE]

\* findHandler that asks the model map before the command map.
findHandlerModelFirst(in) ==
    LET pair == Lookup(cmdModelFuncs, cmdModelPair(in.CommandID, in.ModelID))
        model == Lookup(modelFuncs, in.ModelID)
    IN  IF pair.found THEN pair
        ELSE IF model.found THEN model
        ELSE Lookup(cmdFuncs, in.CommandID)

\* hr.findHandler(in): the maps from specific to general.
findHandler(in) ==
    LET pair == Lookup(cmdModelFuncs, cmdModelPair(in.CommandID, in.ModelID))
        cmd == Lookup(cmdFuncs, in.CommandID)
    IN  IF pair.found THEN pair
        ELSE IF cmd.found THEN cmd
        ELSE Lookup(modelFuncs, in.ModelID)

\* The registrations other than the one for this kind and key.
Others(kind, cmdID, modelID) ==
    {r \in registered : ~(r.kind = kind /\ r.cmd = cmdID /\ r.model = modelID)}

\* A registration fits while the server holds fewer than MaxRegs or replaces one.
CanRegister(kind, cmdID, modelID) ==
    Cardinality(Others(kind, cmdID, modelID)) < MaxRegs

Register(kind, cmdID, modelID, h) ==
    /\ registered' = Others(kind, cmdID, modelID)
                       \cup {[kind |-> kind, cmd |-> cmdID, model |-> modelID, h |-> h]}
    /\ served' = [NoServe EXCEPT !.op = kind]

\* svr.SetCommand(cmdID, h): hr.cmdFuncs[cmdID] = h
SetCommand ==
    \E cmdID \in CommandIDs, h \in Handlers :
        /\ CanRegister("SetCommand", cmdID, "")
        /\ cmdFuncs' = MapSet(cmdFuncs, cmdID, h)
        /\ Register("SetCommand", cmdID, "", h)
        /\ UNCHANGED <<cmdModelFuncs, modelFuncs>>

\* svr.SetModel(modelID, h): hr.modelFuncs[modelID] = h
SetModel ==
    \E modelID \in ModelIDs, h \in Handlers :
        /\ CanRegister("SetModel", "", modelID)
        /\ modelFuncs' = MapSet(modelFuncs, modelID, h)
        /\ Register("SetModel", "", modelID, h)
        /\ UNCHANGED <<cmdModelFuncs, cmdFuncs>>

\* svr.SetModelCommand(modelID, cmdID, h): hr.cmdModelFuncs[pair] = h
SetModelCommand ==
    \E modelID \in ModelIDs, cmdID \in CommandIDs, h \in Handlers :
        /\ CanRegister("SetModelCommand", cmdID, modelID)
        /\ cmdModelFuncs' = MapSet(cmdModelFuncs, cmdModelPair(cmdID, modelID), h)
        /\ Register("SetModelCommand", cmdID, modelID, h)
        /\ UNCHANGED <<cmdFuncs, modelFuncs>>

\* What a registered handler does with (in, o), o being the Output it is handed:
\* hKeep returns nil and leaves o alone, hReplace assigns a whole Output to *o,
\* hFail writes a parameter and returns an error.
RunHandler(h, in, o) ==
    CASE h = "hKeep" -> [out |-> o, err |-> "nil"]
      [] h = "hReplace" ->
            [out |-> [CommandID |-> "cmd5", Parameters |-> MapSet(EmptyMap, "c", "crazy"),
                      Metadata |-> "", Error |-> ""],
             err |-> "nil"]
      [] h = "hFail" ->
            [out |-> [o EXCEPT !.Parameters = MapSet(o.Parameters, "done", "no")],
             err |-> "wrong input"]

\* The Output built for the handler, without the request's metadata.
PrefillNoMetadata(input) ==
    [CommandID |-> input.CommandID, Parameters |-> EmptyMap, Metadata |-> "", Error |-> ""]

\* output := Output{CommandID: input.CommandID, Parameters: make(Params), Metadata: input.Metadata}
Prefill(input) ==
    [CommandID |-> input.CommandID, Parameters |-> EmptyMap,
     Metadata |-> input.Metadata, Error |-> ""]

\* http.Error(w, err.Error(), http.StatusBadRequest); return
ReplyBadRequest(body) ==
    [op |-> "ServeHTTP", request |-> body, status |-> StatusBadRequest,
     contentType |-> "text/plain", text |-> <<"decode error">>, body |-> EmptyMap,
     lookup |-> FALSE, calls |-> <<>>]

\* The missing handler answered as a bad request.
ReplyNotFoundAsBadRequest(body, input) ==
    [op |-> "ServeHTTP", request |-> body, status |-> StatusBadRequest,
     contentType |-> "text/plain",
     text |-> <<"could not find handler for command", input.CommandID>>,
     body |-> EmptyMap, lookup |-> TRUE, calls |-> <<>>]

\* http.Error(w, "could not find handler for command ...", http.StatusInternalServerError); return
ReplyNotFound(body, input) ==
    [op |-> "ServeHTTP", request |-> body, status |-> StatusInternalServerError,
     contentType |-> "text/plain",
     text |-> <<"could not find handler for command", input.CommandID>>,
     body |-> EmptyMap, lookup |-> TRUE, calls |-> <<>>]

\* Run the command and send the result.
ReplyResult(body, input, handler) ==
    LET output == Prefill(input)
        r == RunHandler(handler, input, output)
        final == IF r.err # "nil" THEN [r.out EXCEPT !.Error = r.err] ELSE r.out
    IN  [op |-> "ServeHTTP", request |-> body, status |-> StatusOK,
         contentType |-> "application/json", text |-> <<>>,
         body |-> EncodeOutput(final), lookup |-> TRUE,
         calls |-> <<[handler |-> handler, in |-> input, out |-> output,
                     left |-> r.out, err |-> r.err]>>]

\* svr.ServeHTTP(w, r) for a request with this body.
ServeHTTP ==
    \E body \in Bodies :
        LET d == DecodeInput(body) IN
        /\ served' = IF d.err THEN ReplyBadRequest(body)
                     ELSE LET f == findHandler(d.input) IN
                          IF ~f.found \/ f.handler = "nil"
                          THEN ReplyNotFound(body, d.input)
                          ELSE ReplyResult(body, d.input, f.handler)
        /\ UNCHANGED <<cmdModelFuncs, cmdFuncs, modelFuncs, registered>>

NextCmd ==
    \/ SetCommand /\ UNCHANGED <<vars, paramVars, otherVars>>
    \/ SetModel /\ UNCHANGED <<vars, paramVars, otherVars>>
    \/ SetModelCommand /\ UNCHANGED <<vars, paramVars, otherVars>>
    \/ ServeHTTP /\ UNCHANGED <<vars, paramVars, otherVars>>

\* The server next to a reader nobody calls.
InitCmd == Init /\ maxBufferSize = MaxHist

SpecCmd == InitCmd /\ [][NextCmd]_allVars

TypeOKCmd ==
    /\ DOMAIN cmdModelFuncs \subseteq CommandIDs \X ModelIDs
    /\ DOMAIN cmdFuncs \subseteq CommandIDs
    /\ DOMAIN modelFuncs \subseteq ModelIDs
    /\ \A k \in DOMAIN cmdModelFuncs : cmdModelFuncs[k] \in Handlers
    /\ \A k \in DOMAIN cmdFuncs : cmdFuncs[k] \in Handlers
    /\ \A k \in DOMAIN modelFuncs : modelFuncs[k] \in Handlers
    /\ Cardinality(registered) <= MaxRegs
    /\ served.status \in {0, StatusOK, StatusBadRequest, StatusInternalServerError}
    /\ Len(served.calls) <= 1


\* ---- notions the command-server claims share ----

\* The last call was a ServeHTTP.
Served == served.op = "ServeHTTP"

\* The model ID, command ID and metadata its request names ("" when it names none).
ReqModel == Field(served.request.fields, "modelID", "")
ReqCmd == Field(served.request.fields, "id", "")
ReqMetadata == Field(served.request.fields, "metadata", "")
ReqParams == Field(served.request.fields, "inputParameters", EmptyMap)

\* The registrations of one kind for a key.
Matches(kind, cmdID, modelID) ==
    {r \in registered : r.kind = kind /\ r.cmd = cmdID /\ r.model = modelID}

\* The registration the documented precedence selects for (modelID, cmdID): the
\* pair's, else the command's, else the model's; empty when there is none.
Precedence(modelID, cmdID) ==
    IF Matches("SetModelCommand", cmdID, modelID) # {}
    THEN Matches("SetModelCommand", cmdID, modelID)
    ELSE IF Matches("SetCommand", cmdID, "") # {}
    THEN Matches("SetCommand", cmdID, "")
    ELSE Matches("SetModel", "", modelID)

\* C15: for every set of registrations and every input (modelID, commandID),
\* findHandler returns the handler registered for the pair if there is one, else
\* the one registered for the command ID, else the one registered for the model
\* ID, and reports not-found exactly when none of the three exists; a handler
\* ServeHTTP invokes is the one so selected.
C15_HandlerPrecedence ==
    /\ \A m \in ModelIDs \cup {""}, c \in CommandIDs \cup {""} :
          LET f == findHandler([ZeroInput EXCEPT !.ModelID = m, !.CommandID = c])
              reg == Precedence(m, c)
          IN  /\ f.found <=> reg # {}
              /\ \A r \in reg : f.handler = r.h
    /\ (Served /\ served.calls # <<>>) =>
          \E r \in Precedence(ReqModel, ReqCmd) : served.calls[1].handler = r.h

\* A request for (m1, c1) served by the handler of the command while the model
\* has another handler and the pair has none.
C15_Witness ==
    /\ Served /\ ReqModel = "m1" /\ ReqCmd = "c1"
    /\ Matches("SetModelCommand", "c1", "m1") = {}
    /\ \E r \in Matches("SetCommand", "c1", "") : r.h = "hKeep"
    /\ \E r \in Matches("SetModel", "", "m1") : r.h = "hFail"
    /\ Len(served.calls) = 1 /\ served.calls[1].handler = "hKeep"

\* C16: when a well-formed request names a command and model for which no
\* handler is registered, ServeHTTP answers with status 500 and invokes no handler.
C16_UnknownCommand ==
    (Served /\ served.request.ok /\ Precedence(ReqModel, ReqCmd) = {}) =>
        /\ served.status = 500
        /\ served.calls = <<>>

\* A well-formed request for (m1, c1) answered 500 by a server that has handlers
\* for other IDs.
C16_Witness ==
    /\ Served /\ served.request.ok /\ ReqModel = "m1" /\ ReqCmd = "c1"
    /\ Cardinality(registered) = 2
    /\ \A r \in registered : r.h # "nil"
    /\ Precedence(ReqModel, ReqCmd) = {}
    /\ served.status = 500 /\ served.calls = <<>>

\* C17: when the request body is not decodable JSON, ServeHTTP answers with
\* status 400 before any handler lookup, and invokes no handler.
C17_BadRequest ==
    (Served /\ ~served.request.ok) =>
        /\ served.status = 400
        /\ ~served.lookup
        /\ served.calls = <<>>

\* A body that is not JSON answered 400 by a server that has handlers.
C17_Witness ==
    /\ Served /\ ~served.request.ok
    /\ \E r \in registered : r.h # "nil"
    /\ served.status = 400 /\ ~served.lookup /\ served.calls = <<>>

\* C18: for a well-formed request whose handler is found, ServeHTTP invokes that
\* handler exactly once with the decoded input and an Output holding the
\* request's command ID, an empty parameter map and the request's metadata; the
\* response is the Output as the handler left it, its Error being the message
\* of the error the handler returned when it returned one.
C18_DispatchResult ==
    (Served /\ served.request.ok
       /\ \E r \in Precedence(ReqModel, ReqCmd) : r.h # "nil") =>
        /\ Len(served.calls) = 1
        /\ LET call == served.calls[1]
               resp == DecodeOutput(served.body)
           IN  /\ \E r \in Precedence(ReqModel, ReqCmd) : call.handler = r.h
               /\ call.in.ModelID = ReqModel
               /\ call.in.CommandID = ReqCmd
               /\ call.in.Parameters = ReqParams
               /\ call.in.Metadata = ReqMetadata
               /\ call.out.CommandID = ReqCmd
               /\ DOMAIN call.out.Parameters = {}
               /\ call.out.Metadata = ReqMetadata
               /\ call.out.Error = ""
               /\ served.contentType = "application/json"
               /\ resp.CommandID = call.left.CommandID
               /\ resp.Parameters = call.left.Parameters
               /\ resp.Metadata = call.left.Metadata
               /\ resp.Error = IF call.err # "nil" THEN call.err ELSE call.left.Error

\* A request with parameters and metadata dispatched to a handler that returned
\* an error: the response carries the message, the metadata and what the handler wrote.
C18_Witness ==
    /\ Served /\ served.request.ok
    /\ ReqMetadata = "md" /\ DOMAIN ReqParams # {}
    /\ Len(served.calls) = 1
    /\ served.calls[1].handler = "hFail"
    /\ served.calls[1].err = "wrong input"
    /\ "error" \in DOMAIN served.body /\ served.body["error"] = "wrong input"
    /\ "metadata" \in DOMAIN served.body /\ served.body["metadata"] = "md"
    /\ "outParameters" \in DOMAIN served.body


\* ======================================================================
\* Params (cmdserver/params.go)
\* ======================================================================

\* The ints handed to SetInt are -MaxInt..MaxInt.
MaxInt == 10

\* Keys of the map. Strings are sequences of characters.
Keys == {"k1", "k2"}
Ints == (0 - MaxInt)..MaxInt
StringVals == { <<>>, <<"1">>, <<"x">>, <<"-">> }

DigitChars == <<"0", "1", "2", "3", "4", "5", "6", "7", "8", "9">>

\* The value of a digit character.
DigitValue(c) == (CHOOSE d \in 1..10 : DigitChars[d] = c) - 1

IsDigit(c) == \E d \in 1..10 : DigitChars[d] = c

\* The decimal digits of n >= 0, most significant first.
RECURSIVE Digits(_)
Digits(n) == IF n < 10 THEN <<DigitChars[n + 1]>>
             ELSE Digits(n \div 10) \o <<DigitChars[(n % 10) + 1]>>

\* The number a non-empty sequence of digits denotes.
RECURSIVE DigitsValue(_)
DigitsValue(ds) == IF ds = <<>> THEN 0
                   ELSE DigitsValue(SubSeq(ds, 1, Len(ds) - 1)) * 10 + DigitValue(ds[Len(ds)])

\* Itoa that writes the magnitude only.
ItoaNoSign(v) == IF v < 0 THEN Digits(0 - v) ELSE Digits(v)

\* strconv.Itoa(v)
Itoa(v) == IF v < 0 THEN <<"-">> \o Digits(0 - v) ELSE Digits(v)

\* strconv.Atoi(str): an optional sign and at least one decimal digit, else an error and 0.
Atoi(str) ==
    LET signed == str # <<>> /\ str[1] \in {"-", "+"}
        ds == IF signed THEN Tail(str) ELSE str
    IN  IF ds = <<>> \/ \E n \in 1..Len(ds) : ~IsDigit(ds[n])
        THEN [val |-> 0, err |-> TRUE]
        ELSE [val |-> IF signed /\ str[1] = "-" THEN 0 - DigitsValue(ds) ELSE DigitsValue(ds),
              err |-> FALSE]

\* strconv.FormatBool(b)
FormatBool(b) == IF b THEN <<"t", "r", "u", "e">> ELSE <<"f", "a", "l", "s", "e">>

\* strconv.ParseBool(str)
ParseBool(str) ==
    IF str \in { <<"1">>, <<"t">>, <<"T">>, <<"T", "R", "U", "E">>,
                 <<"t", "r", "u", "e">>, <<"T", "r", "u", "e">> }
    THEN [val |-> TRUE, err |-> FALSE]
    ELSE IF str \in { <<"0">>, <<"f">>, <<"F">>, <<"F", "A", "L", "S", "E">>,
                      <<"f", "a", "l", "s", "e">>, <<"F", "a", "l", "s", "e">> }
    THEN [val |-> FALSE, err |-> FALSE]
    ELSE [val |-> FALSE, err |-> TRUE]

\* strconv.ParseFloat(str, bitSize) on the strings this map holds, which are decimal
\* integers or no numbers at all: the integer as a float, else an error and 0.
ParseFloat(str) == Atoi(str)

\* What the last Set* on a key was handed.
Typed(kind, str, int, bool) == [kind |-> kind, s |-> str, i |-> int, b |-> bool]

\* p.AsString(key) as the other accessors call it: the value and the missing-key error.
Get(key) == IF key \in DOMAIN params THEN [val |-> params[key], err |-> FALSE]
            ELSE [val |-> <<>>, err |-> TRUE]

\* p.SetString(key, val)
SetString ==
    \E key \in Keys, val \in StringVals :
        /\ params' = MapSet(params, key, val)
        /\ typed' = MapSet(typed, key, Typed("string", val, 0, FALSE))
        /\ got' = [NoGet EXCEPT !.op = "SetString", !.key = key]

\* p.SetInt(key, val)
SetInt ==
    \E key \in Keys, val \in Ints :
        /\ params' = MapSet(params, key, Itoa(val))
        /\ typed' = MapSet(typed, key, Typed("int", <<>>, val, FALSE))
        /\ got' = [NoGet EXCEPT !.op = "SetInt", !.key = key]

\* p.SetBool(key, val)
SetBool ==
    \E key \in Keys, val \in BOOLEAN :
        /\ params' = MapSet(params, key, FormatBool(val))
        /\ typed' = MapSet(typed, key, Typed("bool", <<>>, 0, val))
        /\ got' = [NoGet EXCEPT !.op = "SetBool", !.key = key]

\* p.AsString(key)
AsString ==
    \E key \in Keys :
        /\ got' = [NoGet EXCEPT !.op = "AsString", !.key = key,
                                !.s = Get(key).val, !.err = Get(key).err]
        /\ UNCHANGED <<params, typed>>

\* p.AsInt(key)
AsInt ==
    \E key \in Keys :
        LET r == IF Get(key).err THEN [val |-> 0, err |-> TRUE] ELSE Atoi(Get(key).val)
        IN  /\ got' = [NoGet EXCEPT !.op = "AsInt", !.key = key, !.i = r.val, !.err = r.err]
            /\ UNCHANGED <<params, typed>>

\* p.AsBool(key)
AsBool ==
    \E key \in Keys :
        LET r == IF Get(key).err THEN [val |-> FALSE, err |-> TRUE] ELSE ParseBool(Get(key).val)
        IN  /\ got' = [NoGet EXCEPT !.op = "AsBool", !.key = key, !.b = r.val, !.err = r.err]
            /\ UNCHANGED <<params, typed>>

\* p.AsFloat32(key)
AsFloat32 ==
    \E key \in Keys :
        LET r == IF Get(key).err THEN [val |-> 0, err |-> TRUE] ELSE ParseFloat(Get(key).val)
        IN  /\ got' = [NoGet EXCEPT !.op = "AsFloat32", !.key = key, !.f = r.val, !.err = r.err]
            /\ UNCHANGED <<params, typed>>

\* p.AsFloat64(key)
AsFloat64 ==
    \E key \in Keys :
        LET r == IF Get(key).err THEN [val |-> 0, err |-> TRUE] ELSE ParseFloat(Get(key).val)
        IN  /\ got' = [NoGet EXCEPT !.op = "AsFloat64", !.key = key, !.f = r.val, !.err = r.err]
            /\ UNCHANGED <<params, typed>>

NextParams ==
    \/ SetString /\ UNCHANGED <<vars, cmdVars, otherVars>>
    \/ SetInt /\ UNCHANGED <<vars, cmdVars, otherVars>>
    \/ SetBool /\ UNCHANGED <<vars, cmdVars, otherVars>>
    \/ AsString /\ UNCHANGED <<vars, cmdVars, otherVars>>
    \/ AsInt /\ UNCHANGED <<vars, cmdVars, otherVars>>
    \/ AsBool /\ UNCHANGED <<vars, cmdVars, otherVars>>
    \/ AsFloat32 /\ UNCHANGED <<vars, cmdVars, otherVars>>
    \/ AsFloat64 /\ UNCHANGED <<vars, cmdVars, otherVars>>

\* The map next to a reader nobody calls.
InitParams == Init /\ maxBufferSize = MaxHist

SpecParams == InitParams /\ [][NextParams]_allVars

TypeOKParams ==
    /\ DOMAIN params \subseteq Keys
    /\ DOMAIN typed = DOMAIN params
    /\ got.key \in Keys \cup {""}
    /\ got.i \in Ints
    /\ got.b \in BOOLEAN
    /\ got.f \in Ints
    /\ got.err \in BOOLEAN

\* C19: SetInt(key, v) followed by AsInt(key) returns v with no error, likewise
\* SetBool / AsBool and SetString / AsString; a Set on one key leaves the value of
\* every other key as it was; an As* accessor returns an error when the key is
\* absent from the map.
C19_ParamsRoundTrip ==
    [][ /\ (got'.op = "AsInt" /\ got'.key \in DOMAIN typed /\ typed[got'.key].kind = "int")
            => (~got'.err /\ got'.i = typed[got'.key].i)
        /\ (got'.op = "AsBool" /\ got'.key \in DOMAIN typed /\ typed[got'.key].kind = "bool")
            => (~got'.err /\ got'.b = typed[got'.key].b)
        /\ (got'.op = "AsString" /\ got'.key \in DOMAIN typed /\ typed[got'.key].kind = "string")
            => (~got'.err /\ got'.s = typed[got'.key].s)
        /\ got'.op \in {"SetInt", "SetBool", "SetString"}
            => \A k \in Keys \ {got'.key} :
                  /\ k \in DOMAIN params' <=> k \in DOMAIN params
                  /\ k \in DOMAIN params => params'[k] = params[k]
        /\ (got'.op \in {"AsInt", "AsBool", "AsString", "AsFloat32", "AsFloat64"}
              /\ got'.key \notin DOMAIN params)
            => got'.err
      ]_allVars

\* AsInt(k1) has just returned the negative two-digit int that SetInt(k1, ...) was
\* handed, with a bool set on k2 in between.
C19_Witness ==
    /\ got.op = "AsInt" /\ got.key = "k1" /\ ~got.err
    /\ got.i = 0 - MaxInt
    /\ "k1" \in DOMAIN typed /\ typed["k1"].kind = "int" /\ typed["k1"].i = got.i
    /\ "k2" \in DOMAIN typed /\ typed["k2"].kind = "bool"


\* ======================================================================
\* StoppableReader, further claims
\* ======================================================================

\* C21: a Read that consumes the stop latch returns (0, EOF) and changes nothing
\* else: no byte is taken from the Source, no pruning is done even when the buffer
\* is over the threshold, and buffer, bufferStartOffset, currentReader (with its
\* undrained replay slice) and rewindWithoutReset stay as they were; only
\* pauseRead goes from set to clear.
C21_LatchedReadFrame ==
    [][ (pauseRead /\ Called("Read")) =>
          /\ lastOp'.n = 0 /\ lastOp'.eof
          /\ ~pauseRead'
          /\ srcPos' = srcPos
          /\ buffer' = buffer
          /\ bufferStartOffset' = bufferStartOffset
          /\ currentReader' = currentReader
          /\ rewindWithoutReset' = rewindWithoutReset
          /\ maxBufferSize' = maxBufferSize ]_vars

\* A Read has just consumed the latch while the buffer is over the pruning
\* threshold and a replay slice is still undrained.
C21_Witness ==
    /\ lastOp.op = "Read" /\ lastOp.latched
    /\ ~pauseRead
    /\ Len(buffer) > 2 * maxBufferSize
    /\ Replaying
    /\ rewindWithoutReset

\* C27: if every Read is handed at most MaxRead bytes of room, the buffer holds
\* at most 2 x maxBufferSize + MaxRead bytes after every Read, whatever Stop,
\* Rewind and Reset calls are made in between.
C27_BoundedHistory == Len(buffer) <= 2 * maxBufferSize + MaxRead

\* A Read has just filled the buffer up to the bound, after a Rewind and a Stop.
C27_Witness ==
    /\ lastOp.op = "Read" /\ lastOp.n = MaxRead
    /\ Len(buffer) = 2 * maxBufferSize + MaxRead
    /\ nRewinds > 0 /\ nStops > 0


\* ======================================================================
\* StoppableReader with an observer
\* ======================================================================

\* The calls of the reader, with what the observer notes at each.
ObsRead == Read /\ UNCHANGED obs

ObsStop == Stop /\ UNCHANGED obs

ObsRewind ==
    /\ Rewind
    /\ obs' = [obs EXCEPT !.okRewind = (okRewind \/ lastRewind'.err = "nil"),
                          !.tzRewind = (tzRewind \/ lastRewind'.rtz)]

ObsReset ==
    /\ Reset
    /\ obs' = [resetPos |-> srcPos, okRewind |-> FALSE, tzRewind |-> FALSE]

NextObs ==
    \/ ObsRead /\ UNCHANGED <<cmdVars, paramVars, errVars, lockVars, sendVars, wakeVars, poolVars, sessVars>>
    \/ ObsStop /\ UNCHANGED <<cmdVars, paramVars, errVars, lockVars, sendVars, wakeVars, poolVars, sessVars>>
    \/ ObsRewind /\ UNCHANGED <<cmdVars, paramVars, errVars, lockVars, sendVars, wakeVars, poolVars, sessVars>>
    \/ ObsReset /\ UNCHANGED <<cmdVars, paramVars, errVars, lockVars, sendVars, wakeVars, poolVars, sessVars>>

\* NewStoppableReader(reader, 1): the smallest history, pruned most often.
InitObs ==
    /\ NewReader /\ maxBufferSize = 1
    /\ ObsInit /\ NoFailure /\ NoGoroutines /\ NoSend /\ NoWake /\ NoPool /\ NoSession

SpecObs == InitObs /\ [][NextObs]_allVars

TypeOKObs ==
    /\ TypeOK
    /\ resetPos \in 0..SrcLen
    /\ okRewind \in BOOLEAN
    /\ tzRewind \in BOOLEAN

\* ======================================================================
\* StoppableReader over a Source whose read may fail
\* ======================================================================

\* The failing reads of the Source share the budget of the controller's calls.
ErrBudget == nStops + nRewinds + nResets + nFails < MaxCtl

\* The errors other than io.EOF a Source's Read may return.
SourceErrs == {"ErrClosedPipe"}

\* io.TeeReader.Read: n, err = t.r.Read(p); the n bytes are written to the
\* buffer; n and err are returned as they came.
TeeRead(n, err) == [n |-> n, err |-> err]

\* io.MultiReader.Read that reports a failing reader as the end of the stream.
MultiReadHidesErr(r) == [n |-> r.n, err |-> "EOF"]

\* io.MultiReader.Read for a result (n, err) of its current reader with err # io.EOF:
\* it is returned as it came.
MultiRead(r) == [n |-> r.n, err |-> r.err]

\* Read when the Source's read returns n bytes and an error other than io.EOF:
\* the pauseRead branch is not taken, the buffer is shrunk, and
\* sr.currentReader.Read(p) reaches the TeeReader (directly, or through the
\* MultiReader whose replay slice is drained).
ReadErr ==
    \E p \in 1..MaxRead, e \in SourceErrs :
       /\ ErrBudget
       /\ ~pauseRead
       /\ \/ currentReader.stage = "append"
          \/ currentReader.stage = "partial" /\ currentReader.partial = <<>>
       /\ \E n \in 0..Min(p, SrcLen - srcPos) :
            LET sh == Shrunk(buffer, bufferStartOffset, maxBufferSize)
                data == SourceRead(srcPos, n)
                tee == TeeRead(n, e)
                ret == IF currentReader.multi THEN MultiRead(tee) ELSE tee
            IN /\ srcPos' = srcPos + n
               /\ buffer' = sh.buffer \o data
               /\ bufferStartOffset' = sh.start
               /\ out' = out \o SubSeq(data, 1, ret.n)
               /\ lastOp' = Op("ReadErr", ret.n, FALSE, FALSE)
               /\ srcErr' = [fail |-> [n |-> n, err |-> e, retN |-> ret.n, retErr |-> ret.err],
                             nFails |-> nFails + 1]
       /\ currentReader' = [currentReader EXCEPT !.stage = "append"]
       /\ pending' = "none"
       /\ UNCHANGED <<maxBufferSize, pauseRead, rewindWithoutReset, lastRewind,
                      rewoundSinceReset, nStops, nRewinds, nResets, nStopEOF>>

\* The calls in which the Source's read does not fail.
ErrRead == Read /\ srcErr' = [srcErr EXCEPT !.fail = NoFail]

ErrStop == ErrBudget /\ Stop /\ srcErr' = [srcErr EXCEPT !.fail = NoFail]

ErrRewind == ErrBudget /\ Rewind /\ srcErr' = [srcErr EXCEPT !.fail = NoFail]

ErrReset == ErrBudget /\ Reset /\ srcErr' = [srcErr EXCEPT !.fail = NoFail]

NextErr ==
    \/ ErrRead /\ UNCHANGED <<cmdVars, paramVars, obsVars, lockVars, sendVars, wakeVars, poolVars, sessVars>>
    \/ ReadErr /\ UNCHANGED <<cmdVars, paramVars, obsVars, lockVars, sendVars, wakeVars, poolVars, sessVars>>
    \/ ErrStop /\ UNCHANGED <<cmdVars, paramVars, obsVars, lockVars, sendVars, wakeVars, poolVars, sessVars>>
    \/ ErrRewind /\ UNCHANGED <<cmdVars, paramVars, obsVars, lockVars, sendVars, wakeVars, poolVars, sessVars>>
    \/ ErrReset /\ UNCHANGED <<cmdVars, paramVars, obsVars, lockVars, sendVars, wakeVars, poolVars, sessVars>>

\* NewStoppableReader(reader, 1): the smallest history, pruned most often.
InitErr ==
    /\ NewReader /\ maxBufferSize = 1
    /\ NoObserver /\ ErrInit /\ NoGoroutines /\ NoSend /\ NoWake /\ NoPool /\ NoSession

SpecErr == InitErr /\ [][NextErr]_allVars

TypeOKErr ==
    /\ TypeOK
    /\ srcFail.n \in 0..MaxRead
    /\ srcFail.err \in SourceErrs \cup {"nil"}
    /\ nFails \in 0..MaxCtl


\* C22 as stated: a Rewind returns the double-rewind error only if some earlier
\* Rewind since the last Reset (or construction) returned nil.
C22_Original ==
    [][ (Called("Rewind") /\ lastRewind'.err = "DoubleRewind") => okRewind ]_allVars

\* C22 amended: every Rewind call sets the guard, whatever it returns; a Rewind
\* returns the double-rewind error only if some earlier Rewind was called since
\* the last Reset, and after an earlier Rewind that failed for its range the next
\* in-range Rewind does return the double-rewind error.
C22_GuardSetByEveryRewind ==
    [][ /\ rewindWithoutReset = rewoundSinceReset
        /\ Called("Rewind") =>
             /\ rewindWithoutReset'
             /\ lastRewind'.err = "DoubleRewind" => rewoundSinceReset
             /\ (rewoundSinceReset /\ ~okRewind /\ InBuffer(lastRewind'.offset))
                  => lastRewind'.err = "DoubleRewind"
      ]_allVars

\* An in-range Rewind has just returned the double-rewind error although the only
\* earlier Rewind failed.
C22_Witness ==
    /\ lastOp.op = "Rewind" /\ lastRewind.err = "DoubleRewind"
    /\ ~okRewind
    /\ nRewinds = 2 /\ nResets = 0

\* The buffer is the last Len(buffer) bytes consumed from the Source, and while no
\* resetTimeZero Rewind was made since the last Reset its start offset plus its
\* length is the number of bytes consumed since that Reset.
Contiguous ==
    /\ Len(buffer) <= srcPos
    /\ buffer = SubSeq(Source, srcPos - Len(buffer) + 1, srcPos)
    /\ ~tzRewind => bufferStartOffset + Len(buffer) = srcPos - resetPos

\* C26: in every reachable state the buffer equals the most recent Len(buffer)
\* bytes consumed from the Source, in source order; a Read served from the replay
\* slice adds nothing to it; and as long as no resetTimeZero Rewind has occurred
\* since the last Reset (or construction), bufferStartOffset + Len(buffer) is the
\* number of bytes consumed from the Source since that Reset.
C26_HistoryContiguity ==
    [][ /\ Contiguous
        /\ Contiguous'
        /\ (Replaying /\ ~pauseRead /\ Called("Read")) =>
              /\ srcPos' = srcPos
              /\ lastOp'.n > 0
              /\ buffer' = Shrunk(buffer, bufferStartOffset, maxBufferSize).buffer
      ]_allVars

\* After a Reset in mid-stream, live Reads with a prune and a Rewind, a Read has
\* just been served from the replay slice.
C26_Witness ==
    /\ resetPos > 0 /\ bufferStartOffset > 0
    /\ ~tzRewind /\ okRewind
    /\ lastOp.op = "Read" /\ lastOp.n > 0
    /\ currentReader.stage = "partial" /\ out # <<>>

\* C24 as stated: when the Source's read returns n bytes and an error other than
\* end-of-stream, Read returns that n and that error, the n bytes are appended to
\* the buffer, and pauseRead, rewindWithoutReset and bufferStartOffset are unchanged.
C24_Original ==
    [][ Called("ReadErr") =>
          /\ srcFail'.retN = srcFail'.n /\ srcFail'.retErr = srcFail'.err
          /\ Len(buffer') >= srcFail'.n
          /\ SubSeq(buffer', Len(buffer') - srcFail'.n + 1, Len(buffer'))
               = SourceRead(srcPos, srcFail'.n)
          /\ pauseRead' = pauseRead
          /\ rewindWithoutReset' = rewindWithoutReset
          /\ bufferStartOffset' = bufferStartOffset
      ]_allVars

\* C24 amended: Read returns that n and that error, the n bytes are appended to
\* the buffer as the pruning at the start of Read left it, pauseRead and
\* rewindWithoutReset are unchanged, and bufferStartOffset changes only by that
\* pruning.
C24_SourceErrorVerbatim ==
    [][ Called("ReadErr") =>
          /\ srcFail'.retN = srcFail'.n /\ srcFail'.retErr = srcFail'.err
          /\ srcFail'.err \in SourceErrs
          /\ lastOp'.n = srcFail'.n
          /\ buffer' = Shrunk(buffer, bufferStartOffset, maxBufferSize).buffer
                         \o SourceRead(srcPos, srcFail'.n)
          /\ pauseRead' = pauseRead
          /\ rewindWithoutReset' = rewindWithoutReset
          /\ bufferStartOffset' = Shrunk(buffer, bufferStartOffset, maxBufferSize).start
          /\ ~ShouldPrune(Len(buffer), maxBufferSize) => bufferStartOffset' = bufferStartOffset
      ]_allVars

\* A Read in which the Source failed after handing over bytes has just pruned the
\* buffer and appended them.
C24_Witness ==
    /\ lastOp.op = "ReadErr" /\ srcFail.n > 0
    /\ srcFail.retN = srcFail.n /\ srcFail.retErr = "ErrClosedPipe"
    /\ nRewinds = 0
    /\ bufferStartOffset > 0
    /\ Len(buffer) = maxBufferSize + srcFail.n


\* ======================================================================
\* sr.mu: a reading goroutine and a controlling goroutine
\* ======================================================================

\* Calls the two goroutines make in one run, and Reads a replay slice serves.
MaxCalls == 5
MaxReplay == 2

\* Read, first branch: sr.mu.Lock(); pauseRead is set: it is cleared and
\* (0, io.EOF) returned; the deferred Unlock runs.
ReadLatched ==
    /\ rdAt = "idle" /\ mu = "free" /\ nCalls < MaxCalls
    /\ paused
    /\ lk' = [lk EXCEPT !.paused = FALSE, !.nCalls = nCalls + 1]

\* Read served by the replay slice: sr.mu.Lock(); sr.currentReader.Read(p) copies
\* buffered bytes and returns; the deferred Unlock runs.
ReadFromReplay ==
    /\ rdAt = "idle" /\ mu = "free" /\ nCalls < MaxCalls
    /\ ~paused /\ replayLeft > 0
    /\ lk' = [lk EXCEPT !.replayLeft = replayLeft - 1, !.nCalls = nCalls + 1]

\* Variant of ReadEnterSource: the lock is released before the Source is read.
ReadEnterSourceUnlocked ==
    /\ rdAt = "idle" /\ mu = "free" /\ nCalls < MaxCalls
    /\ ~paused /\ replayLeft = 0
    /\ lk' = [lk EXCEPT !.mu = "free", !.rdAt = "source", !.nCalls = nCalls + 1]

\* Read that reaches the Source: sr.mu.Lock(); sr.currentReader.Read(p) calls the
\* TeeReader, which calls the Source's Read; the goroutine waits there for bytes,
\* holding sr.mu (the Unlock is deferred to the return of Read).
ReadEnterSource ==
    /\ rdAt = "idle" /\ mu = "free" /\ nCalls < MaxCalls
    /\ ~paused /\ replayLeft = 0
    /\ lk' = [lk EXCEPT !.mu = "Read", !.rdAt = "source", !.nCalls = nCalls + 1]

\* The Source's Read returns, Read returns and the deferred sr.mu.Unlock() runs.
SourceReturn ==
    /\ rdAt = "source"
    /\ lk' = [lk EXCEPT !.rdAt = "idle", !.mu = "free"]

\* What the body of a control method, run with sr.mu held, can leave: Stop sets
\* pauseRead, Rewind installs a replay slice of some length, Reset clears both.
Critical(op) ==
    CASE op = "Stop" -> {[paused |-> TRUE, replayLeft |-> replayLeft]}
      [] op = "Reset" -> {[paused |-> FALSE, replayLeft |-> 0]}
      [] op = "Rewind" -> {[paused |-> paused, replayLeft |-> n] : n \in 0..MaxReplay}

\* The controlling goroutine calls Stop, Rewind or Reset: sr.mu.Lock() succeeds
\* at once when the mutex is free, and the method runs and returns.
CtlCallFree ==
    \E op \in {"Stop", "Rewind", "Reset"} :
        /\ ctlAt = "idle" /\ nCalls < MaxCalls
        /\ mu = "free"
        /\ \E c \in Critical(op) :
             lk' = [lk EXCEPT !.paused = c.paused, !.replayLeft = c.replayLeft,
                              !.ctlOp = op, !.ctlWaited = FALSE, !.nCalls = nCalls + 1]

\* The controlling goroutine calls Stop, Rewind or Reset while sr.mu is held:
\* it is suspended in sr.mu.Lock().
CtlCallHeld ==
    \E op \in {"Stop", "Rewind", "Reset"} :
        /\ ctlAt = "idle" /\ nCalls < MaxCalls
        /\ mu # "free"
        /\ lk' = [lk EXCEPT !.ctlAt = "blocked", !.ctlOp = op, !.nCalls = nCalls + 1]

\* sr.mu.Lock() returns in the suspended control call once the mutex is free; the
\* method runs and returns.
CtlAcquire ==
    /\ ctlAt = "blocked"
    /\ mu = "free"
    /\ \E c \in Critical(ctlOp) :
         lk' = [lk EXCEPT !.paused = c.paused, !.replayLeft = c.replayLeft,
                          !.ctlAt = "idle", !.ctlWaited = TRUE]

NextLock ==
    \/ ReadLatched /\ UNCHANGED <<vars, cmdVars, paramVars, obsVars, errVars, sendVars, wakeVars, poolVars, sessVars>>
    \/ ReadFromReplay /\ UNCHANGED <<vars, cmdVars, paramVars, obsVars, errVars, sendVars, wakeVars, poolVars, sessVars>>
    \/ ReadEnterSource /\ UNCHANGED <<vars, cmdVars, paramVars, obsVars, errVars, sendVars, wakeVars, poolVars, sessVars>>
    \/ SourceReturn /\ UNCHANGED <<vars, cmdVars, paramVars, obsVars, errVars, sendVars, wakeVars, poolVars, sessVars>>
    \/ CtlCallFree /\ UNCHANGED <<vars, cmdVars, paramVars, obsVars, errVars, sendVars, wakeVars, poolVars, sessVars>>
    \/ CtlCallHeld /\ UNCHANGED <<vars, cmdVars, paramVars, obsVars, errVars, sendVars, wakeVars, poolVars, sessVars>>
    \/ CtlAcquire /\ UNCHANGED <<vars, cmdVars, paramVars, obsVars, errVars, sendVars, wakeVars, poolVars, sessVars>>

\* The goroutines next to a reader state nobody looks at.
InitLock ==
    /\ NewReader /\ maxBufferSize = MaxHist
    /\ NoObserver /\ NoFailure /\ LockInit /\ NoSend /\ NoWake /\ NoPool /\ NoSession

SpecLock == InitLock /\ [][NextLock]_allVars

TypeOKLock ==
    /\ mu \in {"free", "Read"}
    /\ rdAt \in {"idle", "source"}
    /\ ctlAt \in {"idle", "blocked"}
    /\ ctlOp \in {"none", "Stop", "Rewind", "Reset"}
    /\ paused \in BOOLEAN
    /\ replayLeft \in 0..MaxReplay
    /\ nCalls \in 0..MaxCalls
    /\ ctlWaited \in BOOLEAN

\* C23 as stated: a Stop, Rewind or Reset call issued while a Read is inside the
\* Source's Read completes without waiting for that Read: no control call is ever
\* suspended while the reading goroutine is in the Source.
C23_Original == ~(ctlAt = "blocked" /\ rdAt = "source")

\* C23 amended: a control call issued while a Read is inside the Source's Read is
\* suspended in sr.mu.Lock(), because Read holds sr.mu until it returns; it is
\* suspended for no other reason, and it completes only after that Read has
\* returned and released the mutex.
C23_ControlWaitsForRead ==
    [][ /\ (rdAt = "source" /\ ctlAt = "idle" /\ nCalls' # nCalls) => ctlAt' = "blocked"
        /\ rdAt = "source" => mu = "Read"
        /\ ctlAt = "blocked" => (mu = "Read" /\ rdAt = "source") \/ mu = "free"
        /\ (ctlAt = "blocked" /\ ctlAt' = "idle") => (rdAt = "idle" /\ mu = "free" /\ ctlWaited')
      ]_allVars

\* A Stop that was called while a Read was inside the Source has completed after
\* waiting for it, and the latch is set.
C23_Witness ==
    /\ ctlAt = "idle" /\ ctlOp = "Stop" /\ ctlWaited
    /\ paused /\ rdAt = "idle" /\ mu = "free"


\* ======================================================================
\* sendaudio (cubic and transcribe clients)
\* ======================================================================

\* Bytes the audio reader holds before its end.
AudioLen == 3

\* The audio: AudioLen distinct bytes.
Audio == [i \in 1..AudioLen |-> i]

ConfigMsg == [kind |-> "config", data |-> <<>>]
AudioMsg(data) == [kind |-> "audio", data |-> data]

\* sendaudio is called with some bufsize; stream.Send(config): on an error
\* sendaudio returns it, without CloseSend.
SendConfig ==
    /\ sendPc = "config"
    /\ \E b \in 1..MaxBuf :
         \/ snd' = [snd EXCEPT !.bufsize = b, !.stream = stream \o <<ConfigMsg>>,
                               !.pc = "read"]
         \/ snd' = [snd EXCEPT !.bufsize = b, !.sendFailed = TRUE, !.pc = "returned",
                               !.ret = "send error"]

\* Variant of AfterRead: the chunk is sent whatever its length.
AfterReadSendsEmpty(n, err) == "send"

\* Where the loop goes after n, err := audio.Read(buf): to the Send when n > 0,
\* else to the CloseSend when err != nil, else round again.
AfterRead(n, err) ==
    IF n > 0 THEN "send" ELSE IF err # "nil" THEN "close" ELSE "read"

\* n, err := audio.Read(buf): up to len(buf) bytes, with io.EOF at the end of the
\* audio (with the last bytes or after them) or with an error at any point.
ReadAudio ==
    /\ sendPc = "read"
    /\ \E n \in 0..Min(bufsize, AudioLen - audioPos), err \in {"nil", "EOF", "read error"} :
         /\ err = "EOF" => audioPos + n = AudioLen
         /\ snd' = [snd EXCEPT !.n = n, !.err = err, !.audioPos = audioPos + n,
                               !.readerEnded = (err # "nil"), !.pc = AfterRead(n, err)]

\* stream.Send(audio buf[:n]): on an error sendaudio returns it, without CloseSend;
\* else on to the test of err.
SendChunk ==
    /\ sendPc = "send"
    /\ \/ snd' = [snd EXCEPT
                    !.stream = stream \o <<AudioMsg(SubSeq(Audio, audioPos - rdN + 1, audioPos))>>,
                    !.pc = IF rdErr # "nil" THEN "close" ELSE "read"]
       \/ snd' = [snd EXCEPT !.sendFailed = TRUE, !.pc = "returned", !.ret = "send error"]

\* err != nil: stream.CloseSend(); its error is returned, else the reader's error
\* unless it is io.EOF, else nil.
CloseSend ==
    /\ sendPc = "close"
    /\ \E err2 \in {"nil", "close error"} :
         snd' = [snd EXCEPT !.nCloseSend = nCloseSend + 1, !.pc = "returned",
                           !.ret = IF err2 # "nil" THEN err2
                                   ELSE IF rdErr # "EOF" THEN rdErr
                                   ELSE "nil"]

NextSend ==
    \/ SendConfig /\ UNCHANGED <<vars, cmdVars, paramVars, obsVars, errVars, lockVars, wakeVars, poolVars, sessVars>>
    \/ ReadAudio /\ UNCHANGED <<vars, cmdVars, paramVars, obsVars, errVars, lockVars, wakeVars, poolVars, sessVars>>
    \/ SendChunk /\ UNCHANGED <<vars, cmdVars, paramVars, obsVars, errVars, lockVars, wakeVars, poolVars, sessVars>>
    \/ CloseSend /\ UNCHANGED <<vars, cmdVars, paramVars, obsVars, errVars, lockVars, wakeVars, poolVars, sessVars>>

\* sendaudio next to a reader state nobody looks at.
InitSend ==
    /\ NewReader /\ maxBufferSize = MaxHist
    /\ NoObserver /\ NoFailure /\ NoGoroutines /\ SendInit /\ NoWake /\ NoPool /\ NoSession

SpecSend == InitSend /\ [][NextSend]_allVars

TypeOKSend ==
    /\ sendPc \in {"config", "read", "send", "close", "returned"}
    /\ bufsize \in 0..MaxBuf
    /\ audioPos \in 0..AudioLen
    /\ rdN \in 0..MaxBuf
    /\ rdErr \in {"nil", "EOF", "read error"}
    /\ nCloseSend \in 0..1

\* The audio bytes of the messages after the first, in order.
RECURSIVE Chunks(_)
Chunks(msgs) == IF msgs = <<>> THEN <<>> ELSE Head(msgs).data \o Chunks(Tail(msgs))

\* C25: the first message sent on the stream is the config message and every
\* later one an audio message with a non-empty chunk, the chunks in the order read
\* from the audio reader; CloseSend is called at most once, only after the reader
\* has returned io.EOF or an error, never when a Send has failed, and exactly once
\* by the time sendaudio returns without a failed Send.
C25_SendProtocol ==
    /\ stream # <<>> => stream[1] = ConfigMsg
    /\ \A i \in 2..Len(stream) : stream[i].kind = "audio" /\ stream[i].data # <<>>
    /\ Len(Chunks(stream)) <= audioPos
    /\ Chunks(stream) = SubSeq(Audio, 1, Len(Chunks(stream)))
    /\ (sendPc \in {"read", "close"} \/ (sendPc = "returned" /\ ~sendFailed))
          => Chunks(stream) = SubSeq(Audio, 1, audioPos)
    /\ nCloseSend <= 1
    /\ nCloseSend = 1 => (readerEnded /\ ~sendFailed /\ sendPc = "returned")
    /\ sendFailed => (nCloseSend = 0 /\ sendPc = "returned")
    /\ (sendPc = "returned" /\ ~sendFailed) => nCloseSend = 1

\* sendaudio has returned nil after the config and the whole audio in more than
\* one chunk, the last one read together with io.EOF, and one CloseSend.
C25_Witness ==
    /\ sendPc = "returned" /\ sendRet = "nil"
    /\ Len(stream) >= 3
    /\ Chunks(stream) = Audio
    /\ rdErr = "EOF" /\ rdN > 0
    /\ nCloseSend = 1


\* ======================================================================
\* The wake-word flow of the Diatheke audio client (waitForInput)
\* ======================================================================

\* The sending goroutine of wwClient.StreamingRecognize reads the reader until a
\* Read reports an error or io.EOF, then closes its side of the stream.
WakeSenderRead ==
    /\ wakePc = "recognize"
    /\ ~senderDone
    /\ Read
    /\ wake' = [wake EXCEPT !.senderDone = lastOp'.eof]

\* resultHandler meets a final result that ends with a wake phrase: reader.Stop().
\* Results arrive while the sender reads and after it has closed its side.
WakeResultHandler ==
    /\ wakePc = "recognize"
    /\ Stop
    /\ UNCHANGED wakeVars

\* wwClient.StreamingRecognize returns: the sender has ended and the results
\* have all been handled.
WakeRecognizeReturns ==
    /\ wakePc = "recognize"
    /\ senderDone
    /\ wake' = [wake EXCEPT !.pc = "rewind"]
    /\ UNCHANGED vars

\* err = reader.Rewind(round(wakeWordStartTimeSec*wwBytesPerSec), true);
\* log.Fatal(err) on an error.
WakeRewind ==
    /\ wakePc = "rewind"
    /\ Rewind
    /\ lastRewind'.rtz
    /\ wake' = [wake EXCEPT !.pc = IF lastRewind'.err = "nil" THEN "asr" ELSE "fatal"]

\* diatheke.ReadASRAudio(stream, reader, 8192): its first Read of the reader.
WakeASRRead ==
    /\ wakePc = "asr"
    /\ Read
    /\ wake' = [wake EXCEPT !.pc = "read",
                            !.firstRead = IF lastOp'.latched THEN "stale stop"
                                          ELSE IF lastOp'.n > 0 THEN "audio"
                                          ELSE "end"]

NextWake ==
    \/ WakeSenderRead /\ UNCHANGED <<cmdVars, paramVars, obsVars, errVars, lockVars, sendVars, poolVars, sessVars>>
    \/ WakeResultHandler /\ UNCHANGED <<cmdVars, paramVars, obsVars, errVars, lockVars, sendVars, poolVars, sessVars>>
    \/ WakeRecognizeReturns /\ UNCHANGED <<cmdVars, paramVars, obsVars, errVars, lockVars, sendVars, poolVars, sessVars>>
    \/ WakeRewind /\ UNCHANGED <<cmdVars, paramVars, obsVars, errVars, lockVars, sendVars, poolVars, sessVars>>
    \/ WakeASRRead /\ UNCHANGED <<cmdVars, paramVars, obsVars, errVars, lockVars, sendVars, poolVars, sessVars>>

InitWake ==
    /\ NewReader /\ maxBufferSize = MaxHist
    /\ NoObserver /\ NoFailure /\ NoGoroutines /\ NoSend /\ WakeInit /\ NoPool /\ NoSession

SpecWake == InitWake /\ [][NextWake]_allVars

TypeOKWake ==
    /\ wakePc \in {"recognize", "rewind", "asr", "read", "fatal"}
    /\ senderDone \in BOOLEAN
    /\ firstRead \in {"none", "audio", "end", "stale stop"}

\* C28: once waitForInput has ended the wake-word recognition and Rewind has
\* returned, the stop latch is clear, and the first Read of the ASR stream does
\* not return the end-of-stream of a Stop made during the recognition.
C28_NoStaleStop ==
    /\ wakePc = "asr" => ~pauseRead
    /\ firstRead # "stale stop"

\* The recognition has ended on a Stop the sender consumed, Rewind has returned
\* nil, and the first Read of the ASR stream has returned replayed audio.
C28_ReplayAfterWake ==
    /\ wakePc = "read"
    /\ firstRead = "audio"
    /\ nStopEOF > 0
    /\ lastOp.op = "Read" /\ lastOp.n > 0


\* ======================================================================
\* The worker pool of the cubic transcribe command
\* ======================================================================

\* if fileCount < cfg.NumWorkers { numWorkers = fileCount } else { numWorkers = cfg.NumWorkers }
NumWorkersOf(count, cfgN) == IF count < cfgN THEN count ELSE cfgN

\* main up to wg.Wait(): ReadConfigFile checks only the server address, so
\* cfg.NumWorkers is any integer of the file; loadFiles finds some files;
\* make(chan, numWorkers) panics on a negative size; wg.Add(numWorkers + 1);
\* go feedInputFiles; one go transcribeFiles per worker.
MainStart ==
    /\ mainPc = "start"
    /\ \E count \in 0..MaxFiles, cfgN \in (0 - 1)..MaxWorkers :
       LET n == NumWorkersOf(count, cfgN)
       IN IF n < 0
          THEN pool' = [pool EXCEPT !.fileCount = count, !.cfgNumWorkers = cfgN,
                                    !.numWorkers = n, !.mainPc = "panic"]
          ELSE pool' = [pool EXCEPT !.fileCount = count, !.cfgNumWorkers = cfgN,
                                    !.numWorkers = n, !.mainPc = "wait",
                                    !.wgCount = n + 1, !.feederPc = "feed",
                                    !.workerPc = [w \in 1..n |-> "recv"]]

\* The process lives until main returns.
Running == mainPc = "wait"

\* fileChannel <- f: into the buffer when it has room; on a channel without
\* buffer only to a worker that is receiving.
FeedSend ==
    /\ Running
    /\ feederPc = "feed"
    /\ fed < fileCount
    /\ \/ /\ Len(fileChannel) < numWorkers
          /\ pool' = [pool EXCEPT !.fileChannel = Append(fileChannel, fed + 1),
                                  !.fed = fed + 1]
       \/ /\ numWorkers = 0
          /\ \E w \in DOMAIN workerPc :
               /\ workerPc[w] = "recv"
               /\ pool' = [pool EXCEPT
                             !.workerPc[w] = "work",
                             !.taken = Append(taken, [file |-> fed + 1, worker |-> w]),
                             !.fed = fed + 1]

\* The range over files has ended: wg.Done().
FeedDone ==
    /\ Running
    /\ feederPc = "feed"
    /\ fed = fileCount
    /\ pool' = [pool EXCEPT !.wgCount = wgCount - 1, !.feederPc = "close"]

\* close(fileChannel)
FeedClose ==
    /\ Running
    /\ feederPc = "close"
    /\ pool' = [pool EXCEPT !.chanClosed = TRUE, !.feederPc = "exited"]

\* for input := range fileChannel: the next buffered file, or the end of the
\* loop once the channel is closed and drained; else the worker waits.
WorkerRecv(w) ==
    /\ Running
    /\ workerPc[w] = "recv"
    /\ IF fileChannel # <<>>
       THEN pool' = [pool EXCEPT
                      !.taken = Append(taken, [file |-> Head(fileChannel), worker |-> w]),
                      !.fileChannel = Tail(fileChannel),
                      !.workerPc[w] = "work"]
       ELSE /\ chanClosed
            /\ pool' = [pool EXCEPT !.workerPc[w] = "done"]

\* transcribeFile(input, ...) returns.
WorkerTranscribe(w) ==
    /\ Running
    /\ workerPc[w] = "work"
    /\ pool' = [pool EXCEPT !.workerPc[w] = "recv"]

\* wg.Done() at the end of transcribeFiles.
WorkerDone(w) ==
    /\ Running
    /\ workerPc[w] = "done"
    /\ pool' = [pool EXCEPT !.wgCount = wgCount - 1, !.workerPc[w] = "exited"]

\* wg.Wait() returns once the counter is zero, and main returns.
MainWait ==
    /\ mainPc = "wait"
    /\ wgCount = 0
    /\ pool' = [pool EXCEPT !.mainPc = "exited"]

Feeder == FeedSend \/ FeedDone \/ FeedClose

Worker(w) == WorkerRecv(w) \/ WorkerTranscribe(w) \/ WorkerDone(w)

Workers == 1..MaxWorkers

NextPool ==
    \/ MainStart /\ UNCHANGED <<vars, cmdVars, paramVars, obsVars, errVars, lockVars, sendVars, wakeVars, sessVars>>
    \/ FeedSend /\ UNCHANGED <<vars, cmdVars, paramVars, obsVars, errVars, lockVars, sendVars, wakeVars, sessVars>>
    \/ FeedDone /\ UNCHANGED <<vars, cmdVars, paramVars, obsVars, errVars, lockVars, sendVars, wakeVars, sessVars>>
    \/ FeedClose /\ UNCHANGED <<vars, cmdVars, paramVars, obsVars, errVars, lockVars, sendVars, wakeVars, sessVars>>
    \/ \E w \in DOMAIN workerPc :
         WorkerRecv(w) /\ UNCHANGED <<vars, cmdVars, paramVars, obsVars, errVars, lockVars, sendVars, wakeVars, sessVars>>
    \/ \E w \in DOMAIN workerPc :
         WorkerTranscribe(w) /\ UNCHANGED <<vars, cmdVars, paramVars, obsVars, errVars, lockVars, sendVars, wakeVars, sessVars>>
    \/ \E w \in DOMAIN workerPc :
         WorkerDone(w) /\ UNCHANGED <<vars, cmdVars, paramVars, obsVars, errVars, lockVars, sendVars, wakeVars, sessVars>>
    \/ MainWait /\ UNCHANGED <<vars, cmdVars, paramVars, obsVars, errVars, lockVars, sendVars, wakeVars, sessVars>>

InitPool ==
    /\ NewReader /\ maxBufferSize = MaxHist
    /\ NoObserver /\ NoFailure /\ NoGoroutines /\ NoSend /\ NoWake /\ PoolInit /\ NoSession

SpecPool == InitPool /\ [][NextPool]_allVars

\* The Go scheduler lets every goroutine that can take a step take it.
SpecPoolFair ==
    /\ SpecPool
    /\ WF_poolVars(MainStart \/ MainWait)
    /\ WF_poolVars(Feeder)
    /\ \A w \in Workers : WF_poolVars(w \in DOMAIN workerPc /\ Worker(w))

TypeOKPool ==
    /\ mainPc \in {"start", "wait", "exited", "panic"}
    /\ feederPc \in {"none", "feed", "close", "exited"}
    /\ fed \in 0..fileCount
    /\ wgCount \in 0..(MaxWorkers + 1)
    /\ Len(fileChannel) <= MaxWorkers
    /\ numWorkers \in (0 - 1)..MaxWorkers

\* The number of times file f has been received from fileChannel.
TimesTaken(f) == Cardinality({i \in DOMAIN taken : taken[i].file = f})

\* C29: for every number of files and every cfg.NumWorkers each file is received
\* by one worker at most once, and in the end main's wg.Wait() has returned with
\* every file received exactly once, the channel closed after the last file and
\* every worker gone.
C29_WorkerPool ==
    /\ [](\A f \in 1..MaxFiles : TimesTaken(f) <= 1)
    /\ [](chanClosed => fed = fileCount)
    /\ <>(/\ mainPc = "exited"
          /\ \A f \in 1..fileCount : TimesTaken(f) = 1
          /\ \A w \in DOMAIN workerPc : workerPc[w] = "exited")


\* ======================================================================
\* Session handling in main of the Diatheke clients
\* ======================================================================

\* Most session updates of one run.
MaxUpdates == 2

\* Longest session.ActionList.
MaxActions == 2

\* What an entry of session.ActionList is: an input, a reply (handled with or
\* without an error), a command, a transcribe (handled with or without an
\* error), an action of an unknown type, or an entry whose Action is nil.
ActionKinds == {"input", "reply", "replyErr", "command", "transcribe", "transcribeErr",
                "unknown", "none"}

ActionLists == UNION {[1..n -> ActionKinds] : n \in 0..MaxActions}

\* A *diathekepb.SessionOutput the server returns.
SessionOutput(token, actions) == [isNil |-> FALSE, token |-> token, actionList |-> actions]

\* What a call that returns (*SessionOutput, error) hands back.
Returned(sess, err) == [session |-> sess, err |-> err]

\* What the session update of waitForInput and handleCommand can return: the
\* updated session, or a nil session with or without an error.
UpdateResults(token) ==
    {Returned(SessionOutput(token + 1, al), FALSE) : al \in ActionLists}
      \cup {Returned(NilSession, TRUE), Returned(NilSession, FALSE)}

\* processActions: the loop over session.ActionList from entry i on, update
\* being what the session update returns if one is made.
RECURSIVE ProcessFrom(_, _, _)
ProcessFrom(actions, i, update) ==
    IF i > Len(actions)
    THEN Returned(NilSession, TRUE)
    ELSE LET a == actions[i]
         IN IF a \in {"input", "command"} THEN update
            ELSE IF a \in {"replyErr", "transcribeErr", "unknown"} THEN Returned(NilSession, TRUE)
            ELSE ProcessFrom(actions, i + 1, update)

processActions(sess, update) == ProcessFrom(sess.actionList, 1, update)

\* session, err := client.CreateSession(bctx, appCfg.Server.ModelID); main
\* returns on an error.
CreateSession ==
    /\ sessPc = "create"
    /\ \/ \E al \in ActionLists :
            dia' = [dia EXCEPT !.session = SessionOutput(1, al), !.pc = "loop"]
       \/ dia' = [dia EXCEPT !.err = TRUE, !.pc = "returned"]

\* session, err = processActions(client, session); break on an error or on a
\* nil session.
ProcessActions ==
    /\ sessPc = "loop"
    /\ \E update \in UpdateResults(session.token) :
         LET r == processActions(session, update)
         IN /\ r.session.token <= MaxUpdates + 1
            /\ dia' = [dia EXCEPT
                          !.session = r.session,
                          !.err = r.err,
                          !.pc = IF r.err \/ r.session.isNil THEN "cleanup" ELSE "loop"]

\* client.DeleteSession(bctx, session.Token): reading Token of a nil session
\* panics.
DeleteSession ==
    /\ sessPc = "cleanup"
    /\ IF session.isNil
       THEN dia' = [dia EXCEPT !.pc = "panic"]
       ELSE \E e \in BOOLEAN :
              dia' = [dia EXCEPT !.deletedToken = session.token, !.pc = "deleted",
                                   !.err = e]

NextSess ==
    \/ CreateSession /\ UNCHANGED <<vars, cmdVars, paramVars, obsVars, errVars, lockVars, sendVars, wakeVars, poolVars>>
    \/ ProcessActions /\ UNCHANGED <<vars, cmdVars, paramVars, obsVars, errVars, lockVars, sendVars, wakeVars, poolVars>>
    \/ DeleteSession /\ UNCHANGED <<vars, cmdVars, paramVars, obsVars, errVars, lockVars, sendVars, wakeVars, poolVars>>

InitSess ==
    /\ NewReader /\ maxBufferSize = MaxHist
    /\ NoObserver /\ NoFailure /\ NoGoroutines /\ NoSend /\ NoWake /\ NoPool /\ SessInit

SpecSess == InitSess /\ [][NextSess]_allVars

TypeOKSess ==
    /\ sessPc \in {"create", "loop", "cleanup", "deleted", "panic", "returned"}
    /\ session.isNil \in BOOLEAN
    /\ session.token \in 0..(MaxUpdates + 1)
    /\ session.actionList \in ActionLists
    /\ sessErr \in BOOLEAN
    /\ deletedToken \in 0..(MaxUpdates + 1)

\* C30: when the action loop of main has ended, the session variable is not nil
\* where its Token is read, and DeleteSession is called with that token.
C30_CleanupHasSession ==
    /\ sessPc = "cleanup" => ~session.isNil
    /\ sessPc # "panic"
    /\ sessPc = "deleted" => deletedToken = session.token /\ deletedToken > 0

====
